---------------------------- MODULE Spec2Model ----------------------------
(***************************************************************************)
(* A model of the Kubeflow Pipelines processor of Elyra                    *)
(* (elyra/pipeline/kfp/processor_kfp.py): the translation of a pipeline    *)
(* into workflow tasks (_generate_workflow_tasks), the Elyra property      *)
(* handlers add_kubernetes_secret etc., the parameter-name sanitizer, the  *)
(* container command composition, and the submission and the export of a   *)
(* pipeline (process, export, _generate_pipeline_dsl).                     *)
(*                                                                         *)
(* Python strings whose characters matter are sequences of one-character   *)
(* strings; a dict is a function whose DOMAIN is the set of its keys;      *)
(* None is the model value None; sha256 is taken to be injective and is    *)
(* modelled by the text it is applied to.                                  *)
(***************************************************************************)
EXTENDS Naturals, Sequences, FiniteSets, TLC

VARIABLES
    pipeline,          \* the Pipeline object handed to the processor (mutated in place)
    submitted,         \* the pipeline as it was before the first run (history)
    call,              \* the arguments and environment of the current call
    pc,                \* position in _generate_workflow_tasks
    sorted_operations, \* local: indexes into pipeline.operations, topological order
    unique_names,      \* local: name -> next suffix counter
    idx,               \* local: loop position in sorted_operations
    workflow_tasks,    \* local, then returned: task id -> task descriptor
    error,             \* the exception that left the call, or None
    first_run,         \* what the previous run on this Pipeline object returned
    run,               \* number of the current run on this Pipeline object
    execution_object,  \* the dict the property handlers are applied to
    applied,           \* the property instances applied to execution_object so far
    fn,                \* a call of a pure function with its result
    effects,           \* the calls made on the object storage, the compiler, the
                       \* Kubeflow Pipelines server and the file system, in order
    proc,              \* the frame of process() or export()
    unique_component_definitions, \* local of _generate_pipeline_dsl: hash -> definition
    export_file        \* the file at the export path

vars == <<pipeline, submitted, call, pc, sorted_operations, unique_names, idx,
          workflow_tasks, error, first_run, run, execution_object, applied, fn,
          effects, proc, unique_component_definitions, export_file>>

process_vars == <<proc, unique_component_definitions, export_file>>

compile_vars == <<pipeline, submitted, call, pc, sorted_operations, unique_names,
                  idx, workflow_tasks, error, first_run, run, effects, process_vars>>

handler_vars == <<execution_object, applied>>

None == "<None>"

EmptyDict == <<>>

(***************************************************************************)
(* Bounds of the model.                                                    *)
(***************************************************************************)
MaxNodes == 3
MaxRuns == 2

(***************************************************************************)
(* Regular-expression and string helpers (Python's re.sub, str.lstrip,     *)
(* str.rstrip, str.strip) on sequences of characters.                      *)
(***************************************************************************)
UpperChars == {"A", "M", "P", "X"}
\* a lower-case word stands for its letters, so that dict keys stay readable
LowerWords == {"pod", "labels", "annotations", "kubernetes", "secrets", "volumes",
               "tolerations", "disable", "node", "caching", "shared", "mem", "size",
               "env", "variables", "output", "my", "file", "url"}
LowerChars == {"a", "b", "d", "e", "l", "m", "n", "p", "r", "u", "v", "x", "y"}
                  \cup LowerWords
DigitChars == {"0", "1", "2", "3", "4", "5", "6", "7", "8", "9"}
\* string.punctuation characters used by the model
PunctChars == {"!", "-", "_", ";", ".", ":", "/"}
SpaceChars == {" "}
Chars == UpperChars \cup LowerChars \cup DigitChars \cup PunctChars \cup SpaceChars

RECURSIVE DropWhileIn(_, _)
DropWhileIn(s, cls) ==
    IF s = <<>> \/ Head(s) \notin cls THEN s ELSE DropWhileIn(Tail(s), cls)

\* re.sub("[cls]+", rep, s): every maximal run of characters of cls becomes rep
RECURSIVE ReSubRuns(_, _, _)
ReSubRuns(s, cls, rep) ==
    IF s = <<>> THEN <<>>
    ELSE IF Head(s) \in cls
         THEN rep \o ReSubRuns(DropWhileIn(s, cls), cls, rep)
         ELSE <<Head(s)>> \o ReSubRuns(Tail(s), cls, rep)

\* re.sub("[cls]", rep, s): every character of cls becomes rep
RECURSIVE ReSubEach(_, _, _)
ReSubEach(s, cls, rep) ==
    IF s = <<>> THEN <<>>
    ELSE (IF Head(s) \in cls THEN rep ELSE <<Head(s)>>) \o ReSubEach(Tail(s), cls, rep)

LStrip(s, cls) == DropWhileIn(s, cls)

RECURSIVE RStrip(_, _)
RStrip(s, cls) ==
    IF s = <<>> \/ s[Len(s)] \notin cls THEN s
    ELSE RStrip(SubSeq(s, 1, Len(s) - 1), cls)

\* str(n) for a small natural number
RECURSIVE IntToChars(_)
IntToChars(n) ==
    LET digit(d) == CHOOSE c \in DigitChars :
                        c = <<"0", "1", "2", "3", "4", "5", "6", "7", "8", "9">>[d + 1]
    IN IF n < 10 THEN <<digit(n)>> ELSE IntToChars(n \div 10) \o <<digit(n % 10)>>

(***************************************************************************)
(* Label sanitization (processor_kfp.py line 703).                         *)
(***************************************************************************)
\* the characters of the class [-_0-9A-Za-z ]
LabelValidCharsNoUnderscore ==
    UpperChars \cup LowerChars \cup DigitChars \cup {"-", " "}

LabelValidChars == UpperChars \cup LowerChars \cup DigitChars \cup {"-", "_", " "}

\* the invalid characters are removed, nothing is put in their place
ScrubLabelStrip(name) ==
    RStrip(LStrip(ReSubRuns(SelectSeq(name, LAMBDA c : c \in LabelValidChars),
                            {"-"}, <<"-">>),
                  {"-"}),
           {"-"})

\* re.sub("-+", "-", re.sub("[^-_0-9A-Za-z ]+", "-", name)).lstrip("-").rstrip("-")
ScrubLabel(name) ==
    RStrip(LStrip(ReSubRuns(ReSubRuns(name, Chars \ LabelValidChars, <<"-">>),
                            {"-"}, <<"-">>),
                  {"-"}),
           {"-"})

(***************************************************************************)
(* Uniqueness enforcement (processor_kfp.py lines 706-714): one iteration  *)
(* of the loop for an operation named name, with the dict un.              *)
(***************************************************************************)
\* a single test in place of the loop
UniqueNameIf(new_name, name, un) ==
    IF new_name \in DOMAIN un
    THEN [name |-> name \o <<"_">> \o IntToChars(un[name]),
          unique_names |-> [un EXCEPT ![name] = @ + 1]]
    ELSE [name |-> new_name, unique_names |-> un]

\* lines 710-712: the body of the while loop, repeated while new_name is a key of un
RECURSIVE UniqueNameLoop(_, _, _)
UniqueNameLoop(new_name, name, un) ==
    IF new_name \in DOMAIN un
    THEN UniqueNameLoop(name \o <<"_">> \o IntToChars(un[name]), name,
                        [un EXCEPT ![name] = @ + 1])
    ELSE [name |-> new_name, unique_names |-> un]

\* the counter of a new name starts at 0
UniqueNameFromZero(name, un) ==
    LET r == UniqueNameLoop(name, name, un)
    IN [name |-> r.name,
        unique_names |-> (r.name :> 0) @@ r.unique_names]

\* the suffix is appended before the first test
UniqueNameSuffixFirst(name, un) ==
    LET counter == IF name \in DOMAIN un THEN un[name] ELSE 1
        r == UniqueNameLoop(name \o <<"_">> \o IntToChars(counter), name,
                            (name :> counter + 1) @@ un)
    IN [name |-> r.name,
        unique_names |-> (r.name :> 1) @@ r.unique_names]

\* lines 709-714: the new name and the updated dict
UniqueName(name, un) ==
    LET r == UniqueNameLoop(name, name, un)
    IN [name |-> r.name,
        unique_names |-> (r.name :> 1) @@ r.unique_names]

(***************************************************************************)
(* The pipeline: pipeline.operations is an insertion-ordered dict, here a  *)
(* sequence of operation records with pairwise different ids.              *)
(***************************************************************************)
Range(f) == {f[i] : i \in DOMAIN f}

IndexOfId(ops, id) == CHOOSE i \in DOMAIN ops : ops[i].id = id

\* the indexes of the parents of operation i, in the order of parent_operation_ids
ParentIndexes(ops, i) ==
    [k \in DOMAIN ops[i].parent_operation_ids |->
        IndexOfId(ops, ops[i].parent_operation_ids[k])]

\* PipelineProcessor._sort_operations: a depth-first topological sort that
\* visits the operations in insertion order and an operation's parents first
RECURSIVE SortOperationDependencies(_, _, _)
RECURSIVE SortParents(_, _, _, _)
SortOperationDependencies(ops, ordered, i) ==
    IF i \in Range(ordered) THEN ordered
    ELSE Append(SortParents(ops, ordered, ParentIndexes(ops, i), 1), i)

SortParents(ops, ordered, parents, k) ==
    IF k > Len(parents) THEN ordered
    ELSE SortParents(ops, SortOperationDependencies(ops, ordered, parents[k]),
                     parents, k + 1)

RECURSIVE SortFrom(_, _, _)
SortFrom(ops, ordered, i) ==
    IF i > Len(ops) THEN ordered
    ELSE SortFrom(ops, SortOperationDependencies(ops, ordered, i), i + 1)

SortOperations(ops) == SortFrom(ops, <<>>, 1)

\* the operations in insertion order, unsorted
InsertionOrder(ops) == [i \in 1..Len(ops) |-> i]

\* line 651 and line 699: the list the propagation walks is the sorted one
PropagationOrder(ops) == SortOperations(ops)

\* PipelineProcessor._propagate_operation_inputs_outputs: in the given order,
\* an operation's inputs become its own inputs and the inputs and outputs of
\* its parents (lines 694-697)
RECURSIVE PropagateOperationInputsOutputs(_, _, _)
PropagateOperationInputsOutputs(ops, order, k) ==
    IF k > Len(order) THEN ops
    ELSE LET i == order[k]
             parent_io == UNION {ops[p].inputs \cup ops[p].outputs :
                                    p \in Range(ParentIndexes(ops, i))}
         IN PropagateOperationInputsOutputs(
                [ops EXCEPT ![i].inputs = parent_io \cup @], order, k + 1)

(***************************************************************************)
(* Python dicts and values.                                                *)
(***************************************************************************)
\* d[k] = v
DictSet(d, k, v) == (k :> v) @@ d

\* d.get(k, default)
DictGet(d, k, default) == IF k \in DOMAIN d THEN d[k] ELSE default

\* d.pop(k, None)
DictPop(d, k) == [x \in DOMAIN d \ {k} |-> d[x]]

\* an optional string whose characters matter: None is NoneChars
NoneChars == <<"<None>">>

\* the text an f-string renders for an optional string
FormatChars(v) == IF v = NoneChars THEN <<"N", "o", "n", "e">> ELSE v

\* truth value of an optional string
Truthy(v) == v # None /\ v # ""

\* v or default
OrElse(v, default) == IF Truthy(v) THEN v ELSE default

\* the same for an optional string whose characters matter
TruthyChars(v) == v # NoneChars /\ v # <<>>

OrElseChars(v, default) == IF TruthyChars(v) THEN v ELSE default

\* None where a dict is expected
NoneDict == [is_none |-> TRUE]

\* the keys of task_modifiers
KeyPodLabels == <<"pod", "_", "labels">>
KeyPodAnnotations == <<"pod", "_", "annotations">>
KeyKubernetesSecrets == <<"kubernetes", "_", "secrets">>
KeyKubernetesVolumes == <<"kubernetes", "_", "volumes">>
KeyKubernetesTolerations == <<"kubernetes", "_", "tolerations">>
KeyDisableNodeCaching == <<"disable", "_", "node", "_", "caching">>
KeyKubernetesSharedMemSize == <<"kubernetes", "_", "shared", "_", "mem", "_", "size">>
KeyEnvVariables == <<"env", "_", "variables">>
KeySpecialOutputFiles == <<"special_output_files">>
KeyObjectStorageSecret == <<"object_storage_secret">>
KeyImagePullPolicy == <<"image_pull_policy">>
KeyCpuRequest == <<"cpu_request">>
KeyMemRequest == <<"mem_request">>
KeyGpuLimit == <<"gpu_limit">>
KeyCrioRuntime == <<"crio_runtime">>
KeySetRunName == <<"set_run_name">>

(***************************************************************************)
(* The Elyra property handlers (processor_kfp.py lines 1132-1188).         *)
(***************************************************************************)
\* if key not in execution_object: execution_object[key] = {}
WithContainer(eo, key) ==
    IF key \notin DOMAIN eo
    THEN DictSet(eo, key, EmptyDict)
    ELSE eo

\* an entry that is present is left as it is
SetEntryIfAbsent(eo, key, entry, value) ==
    LET e == WithContainer(eo, key)
    IN IF entry \in DOMAIN e[key] THEN e
       ELSE DictSet(e, key, DictSet(e[key], entry, value))

\* execution_object[key][entry] = value, the container created when missing
SetEntry(eo, key, entry, value) ==
    LET e == WithContainer(eo, key)
    IN DictSet(e, key, DictSet(e[key], entry, value))

\* a Python bool stored in a dict, tagged with its type
PyBool(b) == [t |-> "bool", v |-> b]

AddDisableNodeCaching(instance, eo) ==
    IF instance.selection
    THEN DictSet(eo, KeyDisableNodeCaching, PyBool(TRUE))
    ELSE DictSet(eo, KeyDisableNodeCaching, PyBool(FALSE))

AddCustomSharedMemorySize(instance, eo) ==
    IF ~Truthy(instance.size) THEN eo
    ELSE DictSet(eo, KeyKubernetesSharedMemSize,
                 [size |-> instance.size, units |-> instance.units])

AddKubernetesSecret(instance, eo) ==
    SetEntry(eo, KeyKubernetesSecrets, instance.env_var,
             [name |-> instance.name, key |-> instance.key])

AddMountedVolume(instance, eo) ==
    SetEntry(eo, KeyKubernetesVolumes, instance.path,
             [pvc_name |-> instance.pvc_name, sub_path |-> instance.sub_path,
              read_only |-> instance.read_only])

AddKubernetesPodAnnotation(instance, eo) ==
    SetEntry(eo, KeyPodAnnotations, instance.key, OrElseChars(instance.value, <<>>))

AddKubernetesPodLabel(instance, eo) ==
    SetEntry(eo, KeyPodLabels, instance.key, OrElseChars(instance.value, <<>>))

\* sha256 of f"{key}::{operator}::{value}::{effect}", modelled by the text hashed
TolerationHash(instance) ==
    FormatChars(instance.key) \o <<":", ":">> \o FormatChars(instance.operator)
        \o <<":", ":">> \o FormatChars(instance.value)
        \o <<":", ":">> \o FormatChars(instance.effect)

AddKubernetesToleration(instance, eo) ==
    SetEntry(eo, KeyKubernetesTolerations, TolerationHash(instance),
             [key |-> instance.key, operator |-> instance.operator,
              value |-> instance.value, effect |-> instance.effect])

\* ElyraProperty.add_to_execution_object: the handler of the instance's type;
\* environment variables are collected by _collect_envs and have no handler here
AddToExecutionObject(instance, eo) ==
    CASE instance.kind = "DisableNodeCaching" ->
            AddDisableNodeCaching(instance, eo)
      [] instance.kind = "CustomSharedMemorySize" ->
            AddCustomSharedMemorySize(instance, eo)
      [] instance.kind = "KubernetesSecret" ->
            AddKubernetesSecret(instance, eo)
      [] instance.kind = "VolumeMount" -> AddMountedVolume(instance, eo)
      [] instance.kind = "KubernetesAnnotation" ->
            AddKubernetesPodAnnotation(instance, eo)
      [] instance.kind = "KubernetesLabel" ->
            AddKubernetesPodLabel(instance, eo)
      [] instance.kind = "KubernetesToleration" ->
            AddKubernetesToleration(instance, eo)
      [] OTHER -> eo

\* lines 735-739: every instance of operation.elyra_params, in order
RECURSIVE ApplyElyraParams(_, _, _)
ApplyElyraParams(params, k, eo) ==
    IF k > Len(params) THEN eo
    ELSE ApplyElyraParams(params, k + 1, AddToExecutionObject(params[k], eo))

(***************************************************************************)
(* Identifier sanitizers.                                                  *)
(***************************************************************************)
\* str.lower() of one character
LowerChar(c) ==
    CASE c = "A" -> "a" [] c = "M" -> "m" [] c = "P" -> "p" [] c = "X" -> "x"
      [] OTHER -> c

Lower(s) == [i \in DOMAIN s |-> LowerChar(s[i])]

\* the characters matched by \w, by \W and by [\W_]
WordChars == UpperChars \cup LowerChars \cup DigitChars \cup {"_"}
NonWordChars == Chars \ WordChars
NonWordOrUnderscoreChars == NonWordChars \cup {"_"}

\* the class \W alone, the underscore left out
SeparatorsWithoutUnderscore == Chars \ WordChars

\* the character class that line 1121 replaces by a space: [\W_]
ParamNameSeparatorChars == NonWordOrUnderscoreChars

\* KfpPipelineProcessor._sanitize_param_name (lines 1109-1130)
SanitizeParamName(name) ==
    LET lowered == Lower(name)
        spaced == ReSubEach(lowered, ParamNameSeparatorChars, <<" ">>)
        single == ReSubRuns(spaced, {" "}, <<" ">>)
        stripped == RStrip(LStrip(single, SpaceChars), SpaceChars)
        normalized_name == IF stripped # <<>> /\ Head(stripped) \in DigitChars
                           THEN <<"n">> \o stripped
                           ELSE stripped
    IN ReSubEach(normalized_name, {" "}, <<"_">>)

\* re.sub("[" + re.escape(string.punctuation) + "\\s]", "_", id) (lines 724, 921)
EscapeTaskId(id) == ReSubEach(id, PunctChars \cup SpaceChars, <<"_">>)

(***************************************************************************)
(* Container command composition (lines 996-1107).  The command string is  *)
(* the sequence of the parts appended to command_args.                     *)
(***************************************************************************)
INOUT_SEPARATOR == ";"

RECURSIVE Join(_, _)
Join(sep, file_list) ==
    IF file_list = <<>> THEN <<>>
    ELSE IF Len(file_list) = 1 THEN file_list[1]
    ELSE file_list[1] \o <<sep>> \o Join(sep, Tail(file_list))

Contains(file, c) == \E i \in DOMAIN file : file[i] = c

Raise(type, detail) == [raised |-> TRUE, type |-> type, detail |-> detail]

Return(value) == [raised |-> FALSE, value |-> value]

\* only the first file of the list is looked at
FileListToStringFirstOnly(file_list) ==
    IF file_list # <<>> /\ Contains(file_list[1], INOUT_SEPARATOR)
    THEN Raise("ValueError", [file |-> file_list[1]])
    ELSE Return(Join(INOUT_SEPARATOR, file_list))

\* file_list_to_string (lines 1080-1090)
FileListToString(file_list) ==
    IF \E i \in DOMAIN file_list : Contains(file_list[i], INOUT_SEPARATOR)
    THEN LET first == CHOOSE i \in DOMAIN file_list :
                        /\ Contains(file_list[i], INOUT_SEPARATOR)
                        /\ \A j \in 1..(i - 1) : ~Contains(file_list[j], INOUT_SEPARATOR)
         IN Raise("ValueError", [file |-> file_list[first]])
    ELSE Return(Join(INOUT_SEPARATOR, file_list))

\* lines 677-690: the settings built when CRIO_RUNTIME is true
CrioRuntimeSettings ==
    [emptydir_volume_size |-> "20Gi",
     emptydir_volume_name |-> "workspace",
     emptydir_mount_path |-> "/opt/app-root/src/",
     container_python_dir_name |-> "python3",
     container_work_dir_root_path |-> "/opt/app-root/src/",
     container_work_dir |-> "/opt/app-root/src/jupyter-work-dir",
     python_user_lib_path |-> "/opt/app-root/src/jupyter-work-dir/python3"]

\* KfpPipelineProcessor._compose_container_command_args; crio_runtime_settings
\* is None or a dict
ComposeContainerCommandArgs(pipeline_name, cos_endpoint, cos_bucket, cos_directory, cos_dependencies_archive, filename, cos_inputs, cos_outputs, crio_runtime_settings) ==
    LET is_crio_runtime == crio_runtime_settings # NoneDict
        inputs_str == FileListToString(cos_inputs)
        outputs_str == FileListToString(cos_outputs)
        \* lines 1035-1037, taken only with is_crio_runtime
        python_user_lib_path ==
            <<crio_runtime_settings["container_work_dir_root_path"],
              crio_runtime_settings["container_work_dir_name"],
              crio_runtime_settings["container_python_dir_name"]>>
        download == <<[part |-> "download",
                       work_dir |-> IF is_crio_runtime
                                    THEN <<crio_runtime_settings["container_work_dir_root_path"],
                                           crio_runtime_settings["container_work_dir_name"]>>
                                    ELSE <<".", "jupyter-work-dir">>]>>
        pip_conf == IF is_crio_runtime THEN <<[part |-> "pip.conf"]>> ELSE <<>>
        bootstrap == <<[part |-> "bootstrapper",
                        target |-> IF is_crio_runtime
                                   THEN <<"--target=", python_user_lib_path>>
                                   ELSE <<>>,
                        pipeline_name |-> pipeline_name,
                        cos_endpoint |-> cos_endpoint,
                        cos_bucket |-> cos_bucket,
                        cos_directory |-> cos_directory,
                        cos_dependencies_archive |-> cos_dependencies_archive,
                        file |-> filename]>>
        inputs == IF Len(cos_inputs) > 0
                  THEN <<[part |-> "--inputs", files |-> inputs_str.value]>>
                  ELSE <<>>
        outputs == IF Len(cos_outputs) > 0
                   THEN <<[part |-> "--outputs", files |-> outputs_str.value]>>
                   ELSE <<>>
        user_volume == IF is_crio_runtime
                       THEN <<[part |-> "--user-volume-path",
                               path |-> python_user_lib_path]>>
                       ELSE <<>>
    IN IF is_crio_runtime /\ "container_work_dir_name" \notin DOMAIN crio_runtime_settings
       THEN Raise("KeyError", [key |-> "container_work_dir_name"])
       ELSE IF Len(cos_inputs) > 0 /\ inputs_str.raised THEN inputs_str
       ELSE IF Len(cos_outputs) > 0 /\ outputs_str.raised THEN outputs_str
       ELSE Return(download \o pip_conf \o bootstrap \o inputs \o outputs \o user_volume)

(***************************************************************************)
(* Environment variables of a generic node.                                *)
(***************************************************************************)
\* KfpPipelineProcessor.WCD (line 117), with ELYRA_WRITABLE_CONTAINER_DIR unset
WCD == "/tmp"

\* a value that is empty or only whitespace
IsBlank(v) == v \in {"", " ", "  "}

\* the user-declared variables of the operation that carry a value
RECURSIVE UserEnvs(_, _, _)
UserEnvs(params, k, envs) ==
    IF k > Len(params) THEN envs
    ELSE UserEnvs(params, k + 1,
                  IF params[k].kind = "EnvironmentVariable" /\ ~IsBlank(params[k].value)
                  THEN DictSet(envs, params[k].env_var, params[k].value)
                  ELSE envs)

\* RuntimePipelineProcessor._collect_envs: the user-declared variables, then
\* the system-owned ones; with a secret the AWS keys are removed
SuperCollectEnvs(operation, cos_secret, cos_username, cos_password) ==
    LET user == UserEnvs(operation.elyra_params, 1, EmptyDict)
        e1 == DictSet(user, "ELYRA_RUNTIME_ENV", "kfp")
        e2 == IF Truthy(cos_secret)
              THEN DictPop(DictPop(e1, "AWS_ACCESS_KEY_ID"), "AWS_SECRET_ACCESS_KEY")
              ELSE DictSet(DictSet(e1, "AWS_ACCESS_KEY_ID", cos_username),
                           "AWS_SECRET_ACCESS_KEY", cos_password)
    IN DictSet(e2, "ELYRA_ENABLE_PIPELINE_INFO", "True")

\* the directory is set only when the user declared none
CollectEnvsKeepUser(operation, cos_secret, cos_username, cos_password) ==
    LET envs == SuperCollectEnvs(operation, cos_secret, cos_username, cos_password)
    IN IF "ELYRA_WRITABLE_CONTAINER_DIR" \in DOMAIN envs THEN envs
       ELSE DictSet(envs, "ELYRA_WRITABLE_CONTAINER_DIR", WCD)

\* KfpPipelineProcessor._collect_envs (lines 505-514)
CollectEnvs(operation, cos_secret, cos_username, cos_password) ==
    DictSet(SuperCollectEnvs(operation, cos_secret, cos_username, cos_password),
            "ELYRA_WRITABLE_CONTAINER_DIR", WCD)

(***************************************************************************)
(* The task descriptor of a generic node (lines 741-855).                  *)
(***************************************************************************)
RUN_ID_PLACEHOLDER == "{{workflow.uid}}"

\* str.lower() of an engine name
LowerEngine(e) ==
    CASE e = "Argo" -> "argo" [] e = "ARGO" -> "argo"
      [] e = "Tekton" -> "tekton" [] e = "TEKTON" -> "tekton"
      [] OTHER -> e

\* elyra.util.kubernetes.sanitize_label_value, an external function
SanitizeLabelValue(raw) == <<"sanitize_label_value(">> \o raw \o <<")">>

\* a list holding the elements of a set (list(set) fixes some order)
RECURSIVE ListOf(_)
ListOf(S) ==
    IF S = {} THEN <<>>
    ELSE LET x == CHOOSE y \in S : TRUE IN <<x>> \o ListOf(S \ {x})

\* the guard is taken with export where it is meant without
ObjectStorageSecretAppliesOnExport(cos_secret, export) == Truthy(cos_secret) /\ export

\* line 776: if cos_secret and not export
ObjectStorageSecretApplies(cos_secret, export) == Truthy(cos_secret) /\ ~export

\* lines 780-785: the pull policy of the first image configuration that names
\* the operation's image and has one
ImagePullPolicy(images, runtime_image) ==
    LET hits == {i \in DOMAIN images : /\ images[i].image_name = runtime_image
                                       /\ Truthy(images[i].pull_policy)}
    IN IF hits = {} THEN None
       ELSE images[CHOOSE i \in hits : \A j \in hits : i <= j].pull_policy

\* lines 810-830 with the labels of the handlers kept
GenericPodLabels(m, operation, c) ==
    LET l0 == IF KeyPodLabels \in DOMAIN m THEN m[KeyPodLabels] ELSE EmptyDict
        l1 == DictSet(l0, "elyra/node-type", SanitizeLabelValue(<<"notebook-script">>))
        l2 == DictSet(l1, "elyra/pipeline-name", SanitizeLabelValue(c.pipeline_name))
        l3 == DictSet(l2, "elyra/pipeline-version", SanitizeLabelValue(c.pipeline_version))
        l4 == DictSet(l3, "elyra/experiment-name", SanitizeLabelValue(c.experiment_name))
    IN DictSet(l4, "elyra/node-name", SanitizeLabelValue(operation.name))

\* lines 832-841
GenericPodAnnotations(m, operation, p) ==
    LET a0 == IF KeyPodAnnotations \in DOMAIN m THEN m[KeyPodAnnotations] ELSE EmptyDict
        a1 == DictSet(a0, "elyra/node-file-name", operation.filename)
    IN IF p.source # NoneChars
       THEN DictSet(a1, "elyra/pipeline-source", p.source)
       ELSE a1

\* lines 667-669: join_paths(object prefix, pipeline instance id)
\* and line 642: pipeline_instance_id or pipeline_name
ArtifactObjectPrefix(p, c) ==
    p.cos_object_prefix \o <<"/">> \o OrElseChars(c.pipeline_instance_id, c.pipeline_name)

\* _get_dependency_archive_name: <file stem>-<operation id>.tar.gz
DependencyArchiveName(operation) ==
    operation.filename \o <<"-">> \o operation.id \o <<".tar.gz">>

\* lines 762-850: the modifiers of a generic node, on top of those of the handlers
GenericTaskModifiers(m0, operation, p, c) ==
    LET envs == CollectEnvs(operation, c.cos_secret, c.cos_username, c.cos_password)
        m1 == DictSet(m0, KeyEnvVariables, envs)
        m2 == DictSet(m1, KeySpecialOutputFiles,
                      [mlpipeline_ui_metadata |-> <<WCD, "mlpipeline-ui-metadata.json">>,
                       mlpipeline_metrics |-> <<WCD, "mlpipeline-metrics.json">>])
        m3 == IF ObjectStorageSecretApplies(c.cos_secret, c.export)
              THEN DictSet(m2, KeyObjectStorageSecret, c.cos_secret)
              ELSE m2
        policy == ImagePullPolicy(c.runtime_images, operation.runtime_image)
        m4 == IF policy # None THEN DictSet(m3, KeyImagePullPolicy, policy) ELSE m3
        m5 == DictSet(DictSet(DictSet(m4, KeyCpuRequest, operation.cpu),
                              KeyMemRequest, [size |-> operation.memory, units |-> "G"]),
                      KeyGpuLimit,
                      [size |-> operation.gpu,
                       vendor |-> DictGet(envs, "GPU_VENDOR", "nvidia")])
        m6 == IF c.is_crio_runtime
              THEN DictSet(DictSet(m5, KeyCrioRuntime,
                                   [emptydir_volume_size |->
                                        CrioRuntimeSettings.emptydir_volume_size,
                                    emptydir_volume_name |->
                                        CrioRuntimeSettings.emptydir_volume_name,
                                    emptydir_mount_path |->
                                        CrioRuntimeSettings.emptydir_mount_path]),
                           KeyEnvVariables,
                           DictSet(envs, "PYTHONPATH",
                                   CrioRuntimeSettings.python_user_lib_path))
              ELSE m5
        m7 == DictSet(m6, KeyPodLabels, GenericPodLabels(m6, operation, c))
        m8 == DictSet(m7, KeyPodAnnotations, GenericPodAnnotations(m7, operation, p))
    IN DictSet(m8, KeySetRunName,
               IF LowerEngine(c.workflow_engine) = "tekton"
               THEN "dummy value"
               ELSE RUN_ID_PLACEHOLDER)

\* lines 741-855: the generic branch completes workflow_task or raises
GenericTask(workflow_task, operation, p, c) ==
    LET command_args ==
            ComposeContainerCommandArgs(
                c.pipeline_name, c.cos_endpoint, c.cos_bucket, ArtifactObjectPrefix(p, c),
                DependencyArchiveName(operation), operation.filename,
                ListOf(operation.inputs), ListOf(operation.outputs),
                IF c.is_crio_runtime THEN CrioRuntimeSettings ELSE NoneDict)
        component_definition ==
            [template |-> "generic_component_definition_template",
             container_image |-> operation.runtime_image,
             command_args |-> command_args.value]
    IN IF command_args.raised THEN command_args
       ELSE Return([workflow_task EXCEPT
                !.uses_custom_component = FALSE,
                !.component_definition = component_definition,
                !.component_definition_hash = [sha256 |-> component_definition],
                !.task_modifiers = GenericTaskModifiers(@, operation, p, c)])

(***************************************************************************)
(* The task descriptor of a custom node (lines 857-941).  A Python value   *)
(* of a component property is a record tagged with its type.               *)
(***************************************************************************)
PyNone == [t |-> "None"]
PyStr(text) == [t |-> "str", v |-> text]
PyTruthy(v) == v.t # "None" /\ ~(v.t = "str" /\ v.v = "")

IsPrefix(sub, s) == Len(sub) <= Len(s) /\ SubSeq(s, 1, Len(sub)) = sub

\* s.replace(sub, rep): every occurrence, left to right
RECURSIVE StrReplace(_, _, _)
StrReplace(s, sub, rep) ==
    IF s = <<>> THEN <<>>
    ELSE IF IsPrefix(sub, s)
         THEN rep \o StrReplace(SubSeq(s, Len(sub) + 1, Len(s)), sub, rep)
         ELSE <<Head(s)>> \o StrReplace(Tail(s), sub, rep)

(***************************************************************************)
(* The value of an array or object property is a sequence of lexical       *)
(* tokens: brackets, comma, colon, blank, a quoted string and a bare word. *)
(* ast.literal_eval is modelled by a recognizer of list, dict and set      *)
(* displays over quoted strings; a bare word is a name and no literal.     *)
(***************************************************************************)
WhitespaceChars == {" "}
StringLiterals == {"'elem1'", "'key1'"}

\* str.strip()
Strip(s) == RStrip(LStrip(s, WhitespaceChars), WhitespaceChars)

\* only leading whitespace is removed
StripLeft(s) == LStrip(s, WhitespaceChars)

\* the tokens of a text without the whitespace between them
Tokens(s) == SelectSeq(s, LAMBDA c : c \notin WhitespaceChars)

\* positions after a string literal (adjacent literals are concatenated)
StringEnds(t, i) ==
    {j \in (i + 1)..(Len(t) + 1) : \A k \in i..(j - 1) : t[k] \in StringLiterals}

\* positions after an expression that starts at i; the items of a display
\* are expressions (list, set) or key: value pairs with a hashable key (dict)
RECURSIVE ExprEnds(_, _), ItemsEnds(_, _, _)
ExprEnds(t, i) ==
    IF i > Len(t) THEN {}
    ELSE IF t[i] \in StringLiterals THEN StringEnds(t, i)
    ELSE IF t[i] = "["
         THEN {j + 1 : j \in {e \in {i + 1} \cup ItemsEnds(t, i + 1, "list") :
                                e <= Len(t) /\ t[e] = "]"}}
    ELSE IF t[i] = "{"
         THEN {j + 1 : j \in {e \in {i + 1} \cup ItemsEnds(t, i + 1, "dict")
                                        \cup ItemsEnds(t, i + 1, "set") :
                                e <= Len(t) /\ t[e] = "}"}}
    ELSE {}

ItemsEnds(t, i, kind) ==
    LET item == CASE kind = "list" -> ExprEnds(t, i)
                  [] kind = "set" -> StringEnds(t, i)
                  [] kind = "dict" ->
                        UNION {ExprEnds(t, e + 1) :
                               e \in {k \in StringEnds(t, i) : k <= Len(t) /\ t[k] = ":"}}
        comma == {e \in item : e <= Len(t) /\ t[e] = ","}
    IN item \cup {e + 1 : e \in comma} \cup UNION {ItemsEnds(t, e + 1, kind) : e \in comma}

\* the text is a list display
IsListLiteral(s) ==
    LET t == Tokens(s) IN t # <<>> /\ t[1] = "[" /\ (Len(t) + 1) \in ExprEnds(t, 1)

\* the text is a dict display
IsDictLiteral(s) ==
    LET t == Tokens(s)
    IN /\ t # <<>>
       /\ t[1] = "{"
       /\ \E e \in {2} \cup ItemsEnds(t, 2, "dict") : e = Len(t) /\ t[e] = "}"

\* the value is None or the empty string (not value)
PyFalsy(v) == v.t = "None" \/ (v.t = "str" /\ v.v = <<>>)

\* the value is passed on with its trailing whitespace
ProcessListValueKeepTrailing(v) ==
    IF PyFalsy(v) THEN [t |-> "list", v |-> <<"[", "]">>]
    ELSE LET value == StripLeft(v.v)
         IN IF Strip(value) = <<"None">> THEN [t |-> "list", v |-> <<"[", "]">>]
            ELSE IF IsListLiteral(value) THEN [t |-> "list", v |-> Tokens(value)]
            ELSE PyStr(value)

\* RuntimePipelineProcessor._process_list_value: the empty list for no value
\* and for "None", the list for a list display, else the stripped text
ProcessListValue(v) ==
    IF PyFalsy(v) THEN [t |-> "list", v |-> <<"[", "]">>]
    ELSE LET value == Strip(v.v)
         IN IF value = <<"None">> THEN [t |-> "list", v |-> <<"[", "]">>]
            ELSE IF IsListLiteral(value) THEN [t |-> "list", v |-> Tokens(value)]
            ELSE PyStr(value)

\* the value is passed on with its trailing whitespace
ProcessDictionaryValueKeepTrailing(v) ==
    IF PyFalsy(v) THEN [t |-> "dict", v |-> <<"{", "}">>]
    ELSE LET value == StripLeft(v.v)
         IN IF Strip(value) = <<"None">> THEN [t |-> "dict", v |-> <<"{", "}">>]
            ELSE IF IsDictLiteral(value) THEN [t |-> "dict", v |-> Tokens(value)]
            ELSE PyStr(value)

\* RuntimePipelineProcessor._process_dictionary_value
ProcessDictionaryValue(v) ==
    IF PyFalsy(v) THEN [t |-> "dict", v |-> <<"{", "}">>]
    ELSE LET value == Strip(v.v)
         IN IF value = <<"None">> THEN [t |-> "dict", v |-> <<"{", "}">>]
            ELSE IF IsDictLiteral(value) THEN [t |-> "dict", v |-> Tokens(value)]
            ELSE PyStr(value)

\* (input.type or "string").lower()
DataType(type) ==
    CASE type = None -> "string" [] type = "" -> "string"
      [] type = "String" -> "string" [] type = "Integer" -> "integer"
      [] type = "Float" -> "float" [] type = "Bool" -> "bool"
      [] OTHER -> type

\* lines 871-886: one task_inputs entry per declared input
RECURSIVE SeedTaskInputs(_, _, _)
SeedTaskInputs(inputs, k, task_inputs) ==
    IF k > Len(inputs) THEN task_inputs
    ELSE SeedTaskInputs(inputs, k + 1,
            DictSet(task_inputs, SanitizeParamName(inputs[k].name),
                    [value |-> PyNone,
                     task_output_reference |-> PyNone,
                     pipeline_parameter_reference |-> PyNone,
                     data_type |-> DataType(inputs[k].type),
                     requires_quoted_rendering |->
                        DataType(inputs[k].type) \notin {"integer", "float", "bool"}]))

\* lines 888-891
RECURSIVE SeedTaskOutputs(_, _, _)
SeedTaskOutputs(outputs, k, task_outputs) ==
    IF k > Len(outputs) THEN task_outputs
    ELSE SeedTaskOutputs(outputs, k + 1,
            DictSet(task_outputs, SanitizeParamName(outputs[k].name),
                    [data_type |-> outputs[k].type]))

\* lines 916-941: the slot with the value of the property, or an exception
ResolveProperty(reference, component_property, property_value_dict, c) ==
    LET data_entry_type == DictGet(property_value_dict, "widget", None)
        property_value == DictGet(property_value_dict, "value", PyNone)
        from_file == data_entry_type = "file" /\ PyTruthy(property_value)
        read == IF from_file
                THEN (IF c.files[property_value.v] = "" THEN PyNone
                      ELSE PyStr(c.files[property_value.v]))
                ELSE property_value
        defaulted == IF read.t = "None" THEN component_property.value ELSE read
        processed == CASE component_property.json_data_type = "object" ->
                            ProcessDictionaryValue(defaulted)
                       [] component_property.json_data_type = "array" ->
                            ProcessListValue(defaulted)
                       [] OTHER -> defaulted
    IN IF data_entry_type = "inputpath"
       THEN IF property_value.t # "inputpath"
            THEN Raise("TypeError", [ref |-> component_property.ref])
            ELSE Return(DictSet(reference, "task_output_reference",
                    [task_id |-> EscapeTaskId(property_value.value),
                     output_id |-> SanitizeParamName(
                        StrReplace(property_value.option, <<"output", "_">>, <<>>))]))
       ELSE IF from_file /\ property_value.v \notin DOMAIN c.files
            THEN Raise("FileNotFoundError", [path |-> property_value.v])
            ELSE Return(DictSet(reference, "value", processed))

\* lines 895-941: one iteration of the loop over component.properties; acc
\* holds task_inputs and task_modifiers, or the exception raised
ProcessComponentProperty(acc, component_property, operation, c) ==
    IF acc.raised \/ component_property.allowed_input_types = <<None>> THEN acc
    ELSE LET id == SanitizeParamName(component_property.ref)
             is_input == id \in DOMAIN acc.task_inputs
             modifiers == IF is_input THEN acc.task_modifiers
                          ELSE DictSet(acc.task_modifiers, id, EmptyDict)
             reference == IF is_input THEN acc.task_inputs[id] ELSE EmptyDict
             property_value_dict ==
                DictGet(operation.component_params, component_property.ref, NoneDict)
             resolved == ResolveProperty(reference, component_property,
                                         property_value_dict, c)
         IN IF property_value_dict = NoneDict
            THEN Raise("AttributeError", [ref |-> component_property.ref])
            ELSE IF resolved.raised THEN resolved
            ELSE [raised |-> FALSE,
                  task_inputs |-> IF is_input
                                  THEN DictSet(acc.task_inputs, id, resolved.value)
                                  ELSE acc.task_inputs,
                  task_modifiers |-> IF is_input THEN modifiers
                                     ELSE DictSet(modifiers, id, resolved.value)]

RECURSIVE ProcessComponentProperties(_, _, _, _, _)
ProcessComponentProperties(acc, properties, k, operation, c) ==
    IF k > Len(properties) THEN acc
    ELSE ProcessComponentProperties(
            ProcessComponentProperty(acc, properties[k], operation, c),
            properties, k + 1, operation, c)

\* lines 857-941: the custom branch completes workflow_task or raises
CustomTask(workflow_task, operation, c) ==
    LET component == operation.component
        seeded == [raised |-> FALSE,
                   task_inputs |-> SeedTaskInputs(component.inputs, 1, EmptyDict),
                   task_modifiers |-> workflow_task.task_modifiers]
        done == ProcessComponentProperties(seeded, component.properties, 1, operation, c)
    IN IF done.raised THEN done
       ELSE Return([workflow_task EXCEPT
                !.uses_custom_component = TRUE,
                !.component_definition = component.definition,
                !.component_definition_hash = [sha256 |-> component.definition],
                !.task_inputs = done.task_inputs,
                !.task_outputs = SeedTaskOutputs(component.outputs, 1, EmptyDict),
                !.task_modifiers = done.task_modifiers])

\* lines 722-941: the task descriptor of one operation, or the exception raised
WorkflowTask(operation, p, c) ==
    LET workflow_task ==
            [id |-> operation.id,
             escaped_task_id |-> EscapeTaskId(operation.id),
             name |-> operation.name,
             doc |-> operation.doc,
             upstream_workflow_task_ids |-> operation.parent_operation_ids,
             task_inputs |-> EmptyDict,
             task_outputs |-> EmptyDict,
             task_modifiers |-> ApplyElyraParams(operation.elyra_params, 1, EmptyDict),
             uses_custom_component |-> FALSE,
             component_definition |-> None,
             component_definition_hash |-> None]
    IN IF operation.kind = "generic"
       THEN GenericTask(workflow_task, operation, p, c)
       ELSE CustomTask(workflow_task, operation, c)

(***************************************************************************)
(* _generate_workflow_tasks (lines 627-951) as called by                   *)
(* _generate_pipeline_dsl (lines 541-547), step by step.                   *)
(***************************************************************************)
NoError == [raised |-> FALSE]

Operations == pipeline.operations

AnyGeneric == \E i \in DOMAIN Operations : Operations[i].kind = "generic"

\* lines 642-699: sort, verify the object storage when a generic node is
\* present, propagate the inputs and outputs
SortAndPropagate ==
    /\ pc = "start"
    /\ IF AnyGeneric /\ ~call.cos_reachable
       THEN /\ error' = Raise("RuntimeError", [step |-> "_verify_cos_connectivity"])
            /\ pc' = "raised"
            /\ UNCHANGED <<pipeline, sorted_operations>>
       ELSE /\ sorted_operations' = SortOperations(Operations)
            /\ pipeline' = [pipeline EXCEPT !.operations =
                    PropagateOperationInputsOutputs(@, PropagationOrder(@), 1)]
            /\ pc' = "scrub"
            /\ error' = error
    /\ UNCHANGED <<submitted, call, unique_names, idx, workflow_tasks, first_run, run>>
    /\ UNCHANGED <<handler_vars, fn, effects, process_vars>>

\* lines 701-703: scrub all node labels of invalid characters
ScrubLabels ==
    /\ pc = "scrub"
    /\ pipeline' = [pipeline EXCEPT !.operations =
            [i \in DOMAIN @ |-> [@[i] EXCEPT !.name = ScrubLabel(@)]]]
    /\ unique_names' = EmptyDict
    /\ idx' = 1
    /\ pc' = "unique"
    /\ UNCHANGED <<submitted, call, sorted_operations, workflow_tasks, error,
                   first_run, run>>
    /\ UNCHANGED <<handler_vars, fn, effects, process_vars>>

\* lines 707-714: one iteration of the loop that makes the names unique
UniqueNameStep ==
    /\ pc = "unique"
    /\ idx <= Len(sorted_operations)
    /\ LET i == sorted_operations[idx]
           r == UniqueName(Operations[i].name, unique_names)
       IN /\ pipeline' = [pipeline EXCEPT !.operations[i].name = r.name]
          /\ unique_names' = r.unique_names
    /\ IF idx = Len(sorted_operations)
       THEN /\ pc' = "tasks"
            /\ idx' = 1
            /\ workflow_tasks' = EmptyDict
       ELSE /\ idx' = idx + 1
            /\ UNCHANGED <<pc, workflow_tasks>>
    /\ UNCHANGED <<submitted, call, sorted_operations, error, first_run, run>>
    /\ UNCHANGED <<handler_vars, fn, effects, process_vars>>

\* lines 852-855: the dependency archive of a generic node is put into the
\* object storage, or the upload raises
UploadDependenciesToObjectStore(operation, c) ==
    IF operation.id \in c.failing_uploads
    THEN Raise("RuntimeError", [step |-> "_upload_dependencies_to_object_store"])
    ELSE Return([call |-> "_upload_dependencies_to_object_store",
                 node |-> operation.id])

\* no node has its archive uploaded
UploadsDependenciesNever(operation) == FALSE

\* lines 741 and 852-855: the upload is the last statement of the branch
\* of the generic nodes
UploadsDependencies(operation) == operation.kind = "generic"

\* lines 719-947: one iteration of the loop that builds the tasks; an
\* exception leaves the function
BuildTaskStep ==
    /\ pc = "tasks"
    /\ idx <= Len(sorted_operations)
    /\ LET operation == Operations[sorted_operations[idx]]
           task == WorkflowTask(operation, pipeline, call)
           upload == UploadDependenciesToObjectStore(operation, call)
       IN IF task.raised
          THEN /\ error' = task
               /\ pc' = "raised"
               /\ UNCHANGED <<workflow_tasks, idx, effects>>
          ELSE IF UploadsDependencies(operation) /\ upload.raised
          THEN /\ error' = upload
               /\ pc' = "raised"
               /\ UNCHANGED <<workflow_tasks, idx, effects>>
          ELSE /\ workflow_tasks' = DictSet(workflow_tasks, task.value.id, task.value)
               /\ idx' = idx + 1
               /\ effects' = IF UploadsDependencies(operation)
                             THEN Append(effects, upload.value)
                             ELSE effects
               /\ UNCHANGED <<pc, error>>
    /\ UNCHANGED <<pipeline, submitted, call, sorted_operations, unique_names,
                   first_run, run>>
    /\ UNCHANGED <<handler_vars, fn, process_vars>>

\* lines 949-951: return workflow_tasks
ReturnTasks ==
    /\ pc = "tasks"
    /\ idx > Len(sorted_operations)
    /\ pc' = "done"
    /\ UNCHANGED <<pipeline, submitted, call, sorted_operations, unique_names, idx,
                   workflow_tasks, error, first_run, run>>
    /\ UNCHANGED <<handler_vars, fn, effects, process_vars>>

\* the caller runs the generation again on the same Pipeline object, as
\* test_generate_pipeline_dsl_compile_pipeline_dsl_custom_component_pipeline does
Rerun ==
    /\ pc = "done"
    /\ run < MaxRuns
    /\ first_run' = workflow_tasks
    /\ run' = run + 1
    /\ pc' = "start"
    /\ sorted_operations' = <<>>
    /\ unique_names' = EmptyDict
    /\ idx' = 0
    /\ workflow_tasks' = EmptyDict
    /\ UNCHANGED <<pipeline, submitted, call, error>>
    /\ UNCHANGED <<handler_vars, fn, effects, process_vars>>

\* one call of _generate_workflow_tasks
Compile ==
    \/ SortAndPropagate
    \/ ScrubLabels
    \/ UniqueNameStep
    \/ BuildTaskStep
    \/ ReturnTasks

Next ==
    \/ Compile
    \/ Rerun

(***************************************************************************)
(* Pipelines and calls.                                                    *)
(***************************************************************************)
\* a generic operation (GenericOperation)
GenericOp(id, name, parents, inputs, outputs, elyra_params) ==
    [id |-> id, name |-> name, doc |-> "", kind |-> "generic",
     parent_operation_ids |-> parents, inputs |-> inputs, outputs |-> outputs,
     filename |-> <<"nb.ipynb">>, runtime_image |-> "image:1",
     cpu |-> "1", memory |-> "2", gpu |-> "0",
     elyra_params |-> elyra_params,
     component |-> NoneDict, component_params |-> EmptyDict]

\* a custom operation (Operation) with the component its classifier names
CustomOp(id, name, parents, elyra_params, component, component_params) ==
    [id |-> id, name |-> name, doc |-> "", kind |-> "custom",
     parent_operation_ids |-> parents, inputs |-> {}, outputs |-> {},
     filename |-> <<>>, runtime_image |-> "",
     cpu |-> "", memory |-> "", gpu |-> "",
     elyra_params |-> elyra_params,
     component |-> component, component_params |-> component_params]

NodeId(i) == <<"n">> \o IntToChars(i)

Pipeline(operations) ==
    [name |-> <<"M", "a", "p">>, description |-> None,
     runtime_config |-> <<"kfp_dev">>,
     source |-> <<"my.pipeline">>, cos_object_prefix |-> <<"prefix">>,
     operations |-> operations]

\* the arguments _generate_pipeline_dsl hands over (workflow_engine and export
\* are not handed over and keep their defaults, lines 634-635), the runtime
\* configuration and the environment
Call(cos_secret, is_crio_runtime) ==
    [pipeline_name |-> <<"pipe">>, pipeline_version |-> <<"v1">>,
     experiment_name |-> <<"exp">>, pipeline_instance_id |-> <<"pipe-0815">>,
     workflow_engine |-> "argo", export |-> FALSE,
     cos_secret |-> cos_secret, cos_username |-> "Alice", cos_password |-> "pw",
     cos_endpoint |-> "http://minio:9000", cos_bucket |-> "bucket",
     cos_reachable |-> TRUE,
     failing_uploads |-> {},
     is_crio_runtime |-> is_crio_runtime,
     runtime_images |-> <<[image_name |-> "image:1", pull_policy |-> "IfNotPresent",
                           pull_secret |-> None]>>,
     files |-> [path \in {"empty.txt", "text.txt"} |->
                    IF path = "empty.txt" THEN "" ELSE "text"]]

\* neither process() nor export() is running
NoFrame == [op |-> "none"]

\* no file at the export path
NoFile == [exists |-> FALSE]

InitNoProcess ==
    /\ effects = <<>>
    /\ proc = NoFrame
    /\ unique_component_definitions = EmptyDict
    /\ export_file = NoFile

InitLocals ==
    /\ InitNoProcess
    /\ pc = "start"
    /\ sorted_operations = <<>>
    /\ unique_names = EmptyDict
    /\ idx = 0
    /\ workflow_tasks = EmptyDict
    /\ error = NoError
    /\ first_run = EmptyDict
    /\ run = 1

InitIdle ==
    /\ execution_object = EmptyDict
    /\ applied = <<>>
    /\ fn = [name |-> "none"]

(***************************************************************************)
(* Node labels: pipelines of generic nodes with any labels.                *)
(***************************************************************************)
Labels ==
    {<<"x">>, <<"x", "_", "1">>, <<"x", "!">>, <<"!">>,
     <<"_", "1">>, <<"x", "!", "-", "!", "y">>, <<"x", "!", "y">>}

\* the parents of node i of n: none, or the next node (the sorted order is
\* then the reverse of the insertion order)
ParentsOf(shape, i, n) ==
    IF shape = "reverse" /\ i < n THEN <<NodeId(i + 1)>> ELSE <<>>

InitNames ==
    /\ \E n \in 1..MaxNodes, shape \in {"roots", "reverse"} :
        \E labels \in [1..n -> Labels] :
            pipeline = Pipeline([i \in 1..n |->
                GenericOp(NodeId(i), labels[i], ParentsOf(shape, i, n), {}, {}, <<>>)])
    /\ submitted = pipeline
    /\ call = Call(None, FALSE)
    /\ InitLocals
    /\ InitIdle

SpecNames == InitNames /\ [][Next]_vars

(***************************************************************************)
(* Properties of the task names.                                           *)
(***************************************************************************)
Returned == pc = "done"

\* the label of node i as the sanitizer leaves it, from the submitted pipeline
ScrubbedLabel(i) == ScrubLabel(submitted.operations[i].name)

\* the name of the task compiled for node i
TaskName(i) == workflow_tasks[Operations[i].id].name

\* the positions in sorted_operations of the nodes whose scrubbed label is l
PositionsOf(l) ==
    {k \in DOMAIN sorted_operations : ScrubbedLabel(sorted_operations[k]) = l}

\* how many nodes with scrubbed label l are processed before position k
EarlierWith(l, k) == Cardinality({j \in PositionsOf(l) : j < k})

\* l, l_1, l_2, ...: the name of the node at position k among those labelled l
ExpectedName(l, k) ==
    IF EarlierWith(l, k) = 0 THEN l
    ELSE l \o <<"_">> \o IntToChars(EarlierWith(l, k))

\* a is b followed by "_" and a number
IsSuffixed(a, b) ==
    /\ Len(a) > Len(b) + 1
    /\ SubSeq(a, 1, Len(b)) = b
    /\ a[Len(b) + 1] = "_"
    /\ \A j \in (Len(b) + 2)..Len(a) : a[j] \in DigitChars

ScrubbedLabels == {ScrubbedLabel(i) : i \in DOMAIN submitted.operations}

\* no other label of the pipeline is l with a suffix, and l is no other
\* label with a suffix
NoSuffixClash(l) ==
    \A m \in ScrubbedLabels : ~IsSuffixed(m, l) /\ ~IsSuffixed(l, m)

\* C1: when _generate_workflow_tasks has returned, the names of the task
\* descriptors are pairwise distinct
C1_NamesPairwiseDistinct ==
    Returned =>
        \A a, b \in DOMAIN workflow_tasks :
            a # b => workflow_tasks[a].name # workflow_tasks[b].name

\* two nodes whose labels differ and become equal by sanitization were compiled
C1_Witness ==
    /\ Returned
    /\ \E i, j \in DOMAIN Operations :
        /\ i # j
        /\ submitted.operations[i].name # submitted.operations[j].name
        /\ ScrubbedLabel(i) = ScrubbedLabel(j)

\* C2 as claimed: the nodes that share a label l are named l, l_1, l_2, ...
\* in the order they are processed, whatever the other labels are
C2_SharedLabelNamesAnyLabels ==
    Returned =>
        \A k \in DOMAIN sorted_operations :
            TaskName(sorted_operations[k])
                = ExpectedName(ScrubbedLabel(sorted_operations[k]), k)

\* C2 as amended: the nodes that share a label l are named l, l_1, l_2, ...
\* in the order they are processed, provided no other label of the pipeline
\* is l followed by _<number> and l is no other label followed by _<number>
C2_SharedLabelNames ==
    Returned =>
        \A k \in DOMAIN sorted_operations :
            NoSuffixClash(ScrubbedLabel(sorted_operations[k])) =>
                TaskName(sorted_operations[k])
                    = ExpectedName(ScrubbedLabel(sorted_operations[k]), k)

\* three nodes that share a label were compiled next to a node labelled otherwise
C2_Witness ==
    /\ Returned
    /\ \E l \in ScrubbedLabels :
        /\ NoSuffixClash(l)
        /\ Cardinality(PositionsOf(l)) >= 2
        /\ Cardinality(ScrubbedLabels) >= 2
        /\ \E k \in PositionsOf(l) : TaskName(sorted_operations[k]) = l \o <<"_", "1">>

\* the names given to the nodes processed before position k
EarlierNames(k) == {TaskName(sorted_operations[j]) : j \in 1..(k - 1)}

\* the labels of the nodes processed before position k
EarlierLabels(k) == {ScrubbedLabel(sorted_operations[j]) : j \in 1..(k - 1)}

\* C19 as claimed: a node whose label differs from the label of every node
\* processed before it keeps the label as its name, and a node whose name is
\* not its label has the label of an earlier node
C19_SuffixOnlyForEarlierLabel ==
    Returned =>
        \A k \in DOMAIN sorted_operations :
            LET l == ScrubbedLabel(sorted_operations[k])
                name == TaskName(sorted_operations[k])
            IN /\ l \notin EarlierLabels(k) => name = l
               /\ name # l => l \in EarlierLabels(k)

\* C19 as amended: a node whose label differs from the name given to every
\* node processed before it keeps the label as its name, and a node whose
\* name is not its label has a label that is the name of an earlier node and
\* a name that is the label followed by _<number>
C19_SuffixOnlyForEarlierName ==
    Returned =>
        \A k \in DOMAIN sorted_operations :
            LET l == ScrubbedLabel(sorted_operations[k])
                name == TaskName(sorted_operations[k])
            IN /\ l \notin EarlierNames(k) => name = l
               /\ name # l => l \in EarlierNames(k) /\ IsSuffixed(name, l)

\* a node processed after others kept its label, which no earlier node was
\* named, and another node was given a suffix
C19_Witness ==
    /\ Returned
    /\ run = 1
    /\ \E k, j \in DOMAIN sorted_operations :
        /\ k > 1
        /\ ScrubbedLabel(sorted_operations[k]) \notin EarlierNames(k)
        /\ TaskName(sorted_operations[k]) = ScrubbedLabel(sorted_operations[k])
        /\ TaskName(sorted_operations[j]) # ScrubbedLabel(sorted_operations[j])

\* the labels were scrubbed and not yet made unique, in the first run
Scrubbed == pc = "unique" /\ idx = 1 /\ run = 1

\* the positions of the characters of a label that are kept as they are: the
\* valid characters other than the dash
KeptPositions(label) ==
    {i \in DOMAIN label : label[i] \in LabelValidChars \ {"-"}}

\* the kept characters in their order, with one dash between two of them
\* that are not neighbours in the label, and nothing before or after
KeptWithDashes(label) ==
    LET kept == KeptPositions(label)
        Nth(k) == CHOOSE i \in kept : Cardinality({j \in kept : j < i}) = k - 1
        RECURSIVE From(_)
        From(k) ==
            IF k > Cardinality(kept) THEN <<>>
            ELSE (IF k > 1 /\ Nth(k) > Nth(k - 1) + 1 THEN <<"-">> ELSE <<>>)
                    \o <<label[Nth(k)]>> \o From(k + 1)
    IN From(1)

\* the kept characters and the dashes of the label, the dashes collapsed and
\* trimmed; nothing stands for a removed character
ValidCharsOnly(label) ==
    LET valid == SelectSeq(label, LAMBDA c : c \in LabelValidChars)
        kept == {i \in DOMAIN valid : valid[i] # "-"}
        Nth(k) == CHOOSE i \in kept : Cardinality({j \in kept : j < i}) = k - 1
        RECURSIVE From(_)
        From(k) ==
            IF k > Cardinality(kept) THEN <<>>
            ELSE (IF k > 1 /\ Nth(k) > Nth(k - 1) + 1 THEN <<"-">> ELSE <<>>)
                    \o <<valid[Nth(k)]>> \o From(k + 1)
    IN From(1)

\* C20 as claimed: the characters outside [-_0-9A-Za-z ] are removed with
\* nothing in their place, runs of - are collapsed and - is trimmed at both
\* ends (a!b becomes ab)
C20_InvalidCharsRemoved ==
    Scrubbed =>
        \A i \in DOMAIN Operations :
            Operations[i].name = ValidCharsOnly(submitted.operations[i].name)

\* C20 as amended: every run of characters outside [-_0-9A-Za-z ] becomes
\* one -, runs of - are collapsed to one - and - is trimmed at both ends
\* (a!b becomes a-b): the valid characters other than - stay in their order,
\* one - stands between two of them that were not neighbours
C20_InvalidCharsBecomeDash ==
    Scrubbed =>
        \A i \in DOMAIN Operations :
            Operations[i].name = KeptWithDashes(submitted.operations[i].name)

\* a label with an invalid character between two valid ones was scrubbed,
\* and the two are now separated by a dash
C20_Witness ==
    /\ Scrubbed
    /\ \E i \in DOMAIN Operations :
        /\ submitted.operations[i].name = <<"x", "!", "y">>
        /\ Operations[i].name = <<"x", "-", "y">>

(***************************************************************************)
(* Dependency propagation: pipelines of generic nodes over any acyclic     *)
(* graph, in any insertion order, each node declaring an input and an      *)
(* output of its own, or nothing.                                          *)
(***************************************************************************)
MaxGraphNodes == 3

OutFile(i) == <<"out", IntToChars(i)[1], ".", "csv">>
InFile(i) == <<"in", IntToChars(i)[1], ".", "csv">>

\* the nodes reachable from i along the parent edges of the function parents
RECURSIVE AncestorsIn(_, _, _)
AncestorsIn(parents, i, fuel) ==
    IF fuel = 0 THEN {}
    ELSE parents[i] \cup UNION {AncestorsIn(parents, p, fuel - 1) : p \in parents[i]}

\* the orders in which n nodes can depend on each other
Ranks(n) == {r \in [1..n -> 1..n] : \A i, j \in 1..n : i # j => r[i] # r[j]}

\* the parent sets of the first k nodes: any nodes of lower rank
RECURSIVE ParentChoices(_, _)
ParentChoices(rank, k) ==
    IF k = 0 THEN {<<>>}
    ELSE {Append(f, P) : f \in ParentChoices(rank, k - 1),
                         P \in SUBSET {j \in DOMAIN rank : rank[j] < rank[k]}}

InitPropagation ==
    /\ \E n \in 1..MaxGraphNodes :
        \E rank \in Ranks(n) :
            \E parents \in ParentChoices(rank, n), declares \in [1..n -> BOOLEAN] :
                pipeline = Pipeline([i \in 1..n |->
                    GenericOp(NodeId(i), <<"x">>,
                              [k \in 1..Cardinality(parents[i]) |->
                                    NodeId(ListOf(parents[i])[k])],
                              IF declares[i] THEN {InFile(i)} ELSE {},
                              IF declares[i] THEN {OutFile(i)} ELSE {},
                              <<>>)])
    /\ submitted = pipeline
    /\ call = Call(None, FALSE)
    /\ InitLocals
    /\ InitIdle

SpecPropagation == InitPropagation /\ [][Compile]_vars

\* the ancestors of node i in the submitted pipeline
Ancestors(i) ==
    AncestorsIn([j \in DOMAIN submitted.operations |->
                    Range(ParentIndexes(submitted.operations, j))],
                i, Len(submitted.operations))

Propagated == pc \in {"scrub", "unique", "tasks", "done"}

\* C4: after the propagation, every file output declared by an ancestor of a
\* node is among the node's inputs, and so are the inputs the node declared
C4_AncestorOutputsAreInputs ==
    Propagated =>
        \A i \in DOMAIN Operations :
            /\ submitted.operations[i].inputs \subseteq Operations[i].inputs
            /\ \A a \in Ancestors(i) :
                submitted.operations[a].outputs \subseteq Operations[i].inputs

\* a node was propagated to whose grandparent declares an output, whose parent
\* declares nothing, and which is inserted before both
C4_Witness ==
    /\ Propagated
    /\ \E a, b, c \in DOMAIN Operations :
        /\ c < b /\ b < a
        /\ submitted.operations[c].parent_operation_ids = <<NodeId(b)>>
        /\ submitted.operations[b].parent_operation_ids = <<NodeId(a)>>
        /\ submitted.operations[a].outputs # {}
        /\ submitted.operations[b].outputs = {} /\ submitted.operations[b].inputs = {}
        /\ submitted.operations[c].inputs = {}
        /\ submitted.operations[a].outputs \subseteq Operations[c].inputs

(***************************************************************************)
(* Task descriptors: pipelines with a generic or custom node of any        *)
(* variant (Elyra properties, environment variables, file dependencies,    *)
(* component properties) among plain generic nodes, under the runtime      *)
(* configurations.                                                         *)
(***************************************************************************)
MaxTaskNodes == 2

\* instances of the Elyra properties
KubernetesLabel(key, value) == [kind |-> "KubernetesLabel", key |-> key, value |-> value]
KubernetesAnnotation(key, value) ==
    [kind |-> "KubernetesAnnotation", key |-> key, value |-> value]
KubernetesSecret(env_var, name, key) ==
    [kind |-> "KubernetesSecret", env_var |-> env_var, name |-> name, key |-> key]
VolumeMount(path, pvc_name, sub_path, read_only) ==
    [kind |-> "VolumeMount", path |-> path, pvc_name |-> pvc_name,
     sub_path |-> sub_path, read_only |-> read_only]
KubernetesToleration(key, operator, value, effect) ==
    [kind |-> "KubernetesToleration", key |-> key, operator |-> operator,
     value |-> value, effect |-> effect]
DisableNodeCaching(selection) == [kind |-> "DisableNodeCaching", selection |-> selection]
CustomSharedMemorySize(size, units) ==
    [kind |-> "CustomSharedMemorySize", size |-> size, units |-> units]
EnvironmentVariable(env_var, value) ==
    [kind |-> "EnvironmentVariable", env_var |-> env_var, value |-> value]

\* every property handler has an instance, one toleration is declared twice
KubernetesParams ==
    <<KubernetesLabel("team", <<"b", "l", "u", "e">>),
      KubernetesLabel("tier", NoneChars),
      KubernetesAnnotation("note", <<"a", " ", "b">>),
      KubernetesSecret("TOKEN", "s1", "k1"),
      VolumeMount("/mnt", "pvc1", "", FALSE),
      KubernetesToleration(<<"gpu">>, <<"Exists">>, NoneChars, <<"NoSchedule">>),
      KubernetesToleration(<<"gpu">>, <<"Exists">>, NoneChars, <<"NoSchedule">>),
      DisableNodeCaching(TRUE),
      CustomSharedMemorySize("2", "G")>>

\* a label and an annotation under the keys the generic branch writes itself
ElyraKeyParams ==
    <<KubernetesLabel("elyra/node-name", <<"my">>),
      KubernetesAnnotation("elyra/node-file-name", <<"my">>)>>

\* user-declared variables, among them the names of the storage credentials
EnvParams ==
    <<EnvironmentVariable("AWS_ACCESS_KEY_ID", "mine"),
      EnvironmentVariable("AWS_SECRET_ACCESS_KEY", "mine too"),
      EnvironmentVariable("GPU_VENDOR", "amd"),
      EnvironmentVariable("BLANK", " "),
      EnvironmentVariable("ELYRA_RUNTIME_ENV", "bogus_runtime"),
      EnvironmentVariable("ELYRA_ENABLE_PIPELINE_INFO", "bogus_pipeline"),
      EnvironmentVariable("ELYRA_WRITABLE_CONTAINER_DIR", "/mine"),
      EnvironmentVariable("USER_TWO_EQUALS", "KEY=value"),
      EnvironmentVariable("USER_NO_VALUE", "")>>

\* a property of a component (a ComponentParameter)
ComponentProperty(ref, json_data_type, value, allowed_input_types) ==
    [ref |-> ref, name |-> ref, json_data_type |-> json_data_type, value |-> value,
     allowed_input_types |-> allowed_input_types]

\* a component with one input and one output; the properties vary
Component(properties) ==
    [definition |-> [text |-> "name: Download data"],
     inputs |-> <<[name |-> <<"url">>, type |-> "String"]>>,
     outputs |-> <<[name |-> <<"my", " ", "output">>, type |-> "String"]>>,
     properties |-> properties]

UrlProperty == ComponentProperty(<<"url">>, "string", PyNone, <<"string", "file">>)
\* the same property with a default value in the component specification
UrlDefaultProperty ==
    ComponentProperty(<<"url">>, "string", PyStr("http://default"), <<"string", "file">>)
\* a second property whose ref is sanitized to the name of the same input
UrlAgainProperty ==
    ComponentProperty(<<"url", "!">>, "string", PyNone, <<"inputpath">>)
\* a property that is no input of the component
PodLabelsProperty ==
    ComponentProperty(<<"pod", " ", "labels">>, "string", PyNone, <<"string">>)
\* a property that takes no input (an output of the component)
OutputProperty ==
    ComponentProperty(<<"output", "_", "my", "_", "output">>, "string", PyNone, <<None>>)

RawValue(text) == [widget |-> "string", value |-> PyStr(text)]
NoValue == [widget |-> "string", value |-> PyNone]
FileValue(path) == [widget |-> "file", value |-> PyStr(path)]
InputPath(node, option) ==
    [widget |-> "inputpath",
     value |-> [t |-> "inputpath", value |-> node, option |-> option]]

GenericVariants == {"plain", "kubernetes", "elyra keys", "envs", "files", "semicolon"}
CustomVariants == {"value", "no value", "inputpath", "two refs", "pod labels",
                   "custom kubernetes", "nested output", "empty file",
                   "empty file default", "text file"}

\* the node of a variant
TaskNode(variant, id, parents) ==
    CASE variant = "plain" ->
            GenericOp(id, <<"x">>, parents, {}, {}, <<>>)
      [] variant = "kubernetes" ->
            GenericOp(id, <<"x">>, parents, {}, {}, KubernetesParams)
      [] variant = "elyra keys" ->
            GenericOp(id, <<"x">>, parents, {}, {}, ElyraKeyParams)
      [] variant = "envs" ->
            GenericOp(id, <<"x">>, parents, {}, {}, EnvParams)
      [] variant = "files" ->
            GenericOp(id, <<"x">>, parents, {<<"in", ".", "csv">>},
                      {<<"out">> \o id \o <<".", "csv">>}, <<>>)
      [] variant = "semicolon" ->
            GenericOp(id, <<"x">>, parents, {}, {<<"a", ";", "b">>}, <<>>)
      [] variant = "value" ->
            CustomOp(id, <<"x">>, parents, <<>>,
                     Component(<<UrlProperty, OutputProperty>>),
                     DictSet(EmptyDict, <<"url">>, RawValue("http://host/data")))
      [] variant = "no value" ->
            CustomOp(id, <<"x">>, parents, <<>>,
                     Component(<<UrlProperty, OutputProperty>>),
                     DictSet(EmptyDict, <<"url">>, NoValue))
      [] variant = "inputpath" ->
            CustomOp(id, <<"x">>, parents, <<>>,
                     Component(<<UrlProperty, OutputProperty>>),
                     DictSet(EmptyDict, <<"url">>,
                             InputPath(<<"n", "-", "0">>,
                                       <<"output", "_", "my", "_", "output">>)))
      [] variant = "two refs" ->
            CustomOp(id, <<"x">>, parents, <<>>,
                     Component(<<UrlProperty, UrlAgainProperty>>),
                     DictSet(DictSet(EmptyDict, <<"url">>, RawValue("http://host/data")),
                             <<"url", "!">>,
                             InputPath(<<"n", "-", "0">>,
                                       <<"output", "_", "my", "_", "output">>)))
      [] variant = "pod labels" ->
            CustomOp(id, <<"x">>, parents,
                     <<KubernetesLabel("team", <<"b", "l", "u", "e">>)>>,
                     Component(<<UrlProperty, PodLabelsProperty>>),
                     DictSet(DictSet(EmptyDict, <<"url">>, RawValue("http://host/data")),
                             <<"pod", " ", "labels">>, RawValue("green")))
      [] variant = "custom kubernetes" ->
            CustomOp(id, <<"x">>, parents, KubernetesParams,
                     Component(<<UrlProperty>>),
                     DictSet(EmptyDict, <<"url">>, RawValue("http://host/data")))
      [] variant = "nested output" ->
            CustomOp(id, <<"x">>, parents, <<>>,
                     Component(<<UrlProperty, OutputProperty>>),
                     DictSet(EmptyDict, <<"url">>,
                             InputPath(<<"n", "-", "0">>,
                                       <<"output", "_", "my", "_", "output", "_",
                                         "file">>)))
      [] variant = "empty file" ->
            CustomOp(id, <<"x">>, parents, <<>>,
                     Component(<<UrlProperty, OutputProperty>>),
                     DictSet(EmptyDict, <<"url">>, FileValue("empty.txt")))
      [] variant = "empty file default" ->
            CustomOp(id, <<"x">>, parents, <<>>,
                     Component(<<UrlDefaultProperty, OutputProperty>>),
                     DictSet(EmptyDict, <<"url">>, FileValue("empty.txt")))
      [] variant = "text file" ->
            CustomOp(id, <<"x">>, parents, <<>>,
                     Component(<<UrlDefaultProperty, OutputProperty>>),
                     DictSet(EmptyDict, <<"url">>, FileValue("text.txt")))

\* the runtime configurations: no secret, an empty secret, a secret, and a
\* secret in a CRI-O environment
Calls == {Call(None, FALSE), Call("", FALSE), Call("secret", FALSE), Call("secret", TRUE)}

\* the id of the node that the inputpath properties of the variants refer to
UpstreamId == <<"n", "-", "0">>

\* ids of a node that reads an output of node n-0
DownstreamIds == {<<"n", "1">>, <<"n", "_", "0">>}

InitTasks ==
    /\ \/ \E n \in 1..MaxTaskNodes, shape \in {"roots", "reverse"} :
            \E k \in 1..n, variant \in GenericVariants \cup CustomVariants,
               others \in [1..n -> {"plain", "files"}] :
                pipeline = Pipeline([i \in 1..n |->
                    TaskNode(IF i = k THEN variant ELSE others[i],
                             NodeId(i), ParentsOf(shape, i, n))])
       \/ \E upstream \in {"plain", "files", "value"},
             variant \in {"inputpath", "nested output", "two refs"},
             id \in DownstreamIds :
                pipeline = Pipeline(<<TaskNode(upstream, UpstreamId, <<>>),
                                     TaskNode(variant, id, <<UpstreamId>>)>>)
    /\ submitted = pipeline
    /\ call \in Calls
    /\ InitLocals
    /\ InitIdle

Spec == InitTasks /\ [][Next]_vars

\* the generation run once and again on pipelines of either family
SpecRerun == (InitNames \/ InitTasks) /\ [][Next]_vars

\* the task descriptor compiled for node i
Task(i) == workflow_tasks[Operations[i].id]

IsGeneric(i) == Operations[i].kind = "generic"

\* C3: a second run on the same Pipeline object, mutated by the first run,
\* returns task descriptors with the ids, names, component definition hashes
\* and task_modifiers of the first run
C3_SecondRunSameTasks ==
    (Returned /\ run > 1) =>
        /\ DOMAIN workflow_tasks = DOMAIN first_run
        /\ \A id \in DOMAIN workflow_tasks :
            /\ workflow_tasks[id].id = first_run[id].id
            /\ workflow_tasks[id].name = first_run[id].name
            /\ workflow_tasks[id].component_definition_hash
                    = first_run[id].component_definition_hash
            /\ workflow_tasks[id].task_modifiers = first_run[id].task_modifiers

\* a second run has returned for a pipeline whose first run renamed a node
\* and added inputs to a node
C3_Witness ==
    /\ Returned /\ run > 1
    /\ \E i, j \in DOMAIN Operations :
        /\ Operations[i].name # submitted.operations[i].name
        /\ Operations[j].inputs # submitted.operations[j].inputs

\* the modifiers the property handlers write for node i
HandlerModifiers(i) ==
    ApplyElyraParams(submitted.operations[i].elyra_params, 1, EmptyDict)

\* the sub-keys of task_modifiers that hold one entry per instance
ContainerKeys ==
    {KeyPodLabels, KeyPodAnnotations, KeyKubernetesSecrets, KeyKubernetesVolumes,
     KeyKubernetesTolerations}

\* every entry of h is an entry of task_modifiers
HandlerEntriesKept(task_modifiers, h) ==
    \A key \in DOMAIN h :
        /\ key \in DOMAIN task_modifiers
        /\ IF key \in ContainerKeys
           THEN \A entry \in DOMAIN h[key] :
                    /\ entry \in DOMAIN task_modifiers[key]
                    /\ task_modifiers[key][entry] = h[key][entry]
           ELSE task_modifiers[key] = h[key]

\* C6: in every complete task descriptor, of a generic or of a custom node,
\* the sub-keys the property handlers wrote still hold the handlers' entries
C6_HandlerEntriesKept ==
    Returned =>
        \A i \in DOMAIN Operations :
            HandlerEntriesKept(Task(i).task_modifiers, HandlerModifiers(i))

SlotFields == {"value", "task_output_reference", "pipeline_parameter_reference"}

Populated(slot) == {f \in SlotFields : slot[f] # PyNone}

\* C7: in every complete task descriptor of a custom node, every task_inputs
\* entry has exactly one of value, task_output_reference and
\* pipeline_parameter_reference populated
C7_ExactlyOnePopulated ==
    Returned =>
        \A i \in DOMAIN Operations :
            \A name \in DOMAIN Task(i).task_inputs :
                Cardinality(Populated(Task(i).task_inputs[name])) = 1

\* C10: with a storage secret configured, every generic task descriptor
\* carries object_storage_secret and no AWS_ACCESS_KEY_ID or
\* AWS_SECRET_ACCESS_KEY among its env_variables; without one the two
\* variables are cos_username and cos_password
C10_SecretPrecedence ==
    Returned =>
        \A i \in DOMAIN Operations :
            IsGeneric(i) =>
                LET m == Task(i).task_modifiers
                    envs == m[KeyEnvVariables]
                IN IF Truthy(call.cos_secret)
                   THEN /\ KeyObjectStorageSecret \in DOMAIN m
                        /\ m[KeyObjectStorageSecret] = call.cos_secret
                        /\ "AWS_ACCESS_KEY_ID" \notin DOMAIN envs
                        /\ "AWS_SECRET_ACCESS_KEY" \notin DOMAIN envs
                   ELSE /\ "AWS_ACCESS_KEY_ID" \in DOMAIN envs
                        /\ envs["AWS_ACCESS_KEY_ID"] = call.cos_username
                        /\ "AWS_SECRET_ACCESS_KEY" \in DOMAIN envs
                        /\ envs["AWS_SECRET_ACCESS_KEY"] = call.cos_password

\* the tasks were returned, with a secret configured, for a generic node whose
\* user declared AWS_ACCESS_KEY_ID and AWS_SECRET_ACCESS_KEY
C10_Witness ==
    /\ Returned
    /\ Truthy(call.cos_secret)
    /\ \E i \in DOMAIN Operations :
        /\ IsGeneric(i)
        /\ \E k \in DOMAIN Operations[i].elyra_params :
            /\ Operations[i].elyra_params[k].kind = "EnvironmentVariable"
            /\ Operations[i].elyra_params[k].env_var = "AWS_ACCESS_KEY_ID"
        /\ KeyObjectStorageSecret \in DOMAIN Task(i).task_modifiers

\* the user-declared environment variables of node i
DeclaredEnvs(i) ==
    {Operations[i].elyra_params[k] : k \in {j \in DOMAIN Operations[i].elyra_params :
        Operations[i].elyra_params[j].kind = "EnvironmentVariable"}}

SystemEnvKeys ==
    {"ELYRA_RUNTIME_ENV", "ELYRA_ENABLE_PIPELINE_INFO", "ELYRA_WRITABLE_CONTAINER_DIR",
     "AWS_ACCESS_KEY_ID", "AWS_SECRET_ACCESS_KEY"}

\* C11: in the env_variables of every generic task the system-reserved keys
\* hold the system-derived values (kfp, True, the writable container
\* directory, and cos_username and cos_password when no secret is used),
\* whatever the user declared under these names; a user-declared variable
\* whose value is empty or only whitespace is absent, and one with a value
\* is kept
C11_SystemKeysTakePrecedence ==
    Returned =>
        \A i \in DOMAIN Operations :
            IsGeneric(i) =>
                LET envs == Task(i).task_modifiers[KeyEnvVariables]
                IN /\ {"ELYRA_RUNTIME_ENV", "ELYRA_ENABLE_PIPELINE_INFO",
                        "ELYRA_WRITABLE_CONTAINER_DIR"} \subseteq DOMAIN envs
                   /\ envs["ELYRA_RUNTIME_ENV"] = "kfp"
                   /\ envs["ELYRA_ENABLE_PIPELINE_INFO"] = "True"
                   /\ envs["ELYRA_WRITABLE_CONTAINER_DIR"] = "/tmp"
                   /\ ~Truthy(call.cos_secret) =>
                        /\ {"AWS_ACCESS_KEY_ID", "AWS_SECRET_ACCESS_KEY"} \subseteq DOMAIN envs
                        /\ envs["AWS_ACCESS_KEY_ID"] = call.cos_username
                        /\ envs["AWS_SECRET_ACCESS_KEY"] = call.cos_password
                   /\ \A e \in DeclaredEnvs(i) :
                        e.env_var \notin SystemEnvKeys =>
                            IF e.value \in {"", " ", "  "}
                            THEN e.env_var \notin DOMAIN envs
                            ELSE /\ e.env_var \in DOMAIN envs
                                 /\ envs[e.env_var] = e.value

\* the tasks were returned for a generic node whose user declared bogus
\* values for the reserved keys, a blank variable and a variable with a value
C11_Witness ==
    /\ Returned
    /\ ~Truthy(call.cos_secret)
    /\ \E i \in DOMAIN Operations :
        /\ IsGeneric(i)
        /\ \A key \in SystemEnvKeys :
            \E e \in DeclaredEnvs(i) : e.env_var = key /\ e.value \notin {"", " "}
        /\ \E e \in DeclaredEnvs(i) : e.env_var \notin SystemEnvKeys /\ e.value = " "
        /\ \E e \in DeclaredEnvs(i) : e.env_var \notin SystemEnvKeys /\ e.value = ""
        /\ Task(i).task_modifiers[KeyEnvVariables]["USER_TWO_EQUALS"] = "KEY=value"

(***************************************************************************)
(* The property handlers applied to one execution object, in any order.    *)
(***************************************************************************)
MaxApplied == 3

InitNoCall ==
    /\ InitNoProcess
    /\ pipeline = Pipeline(<<>>)
    /\ submitted = pipeline
    /\ call = Call(None, FALSE)
    /\ pc = "idle"
    /\ sorted_operations = <<>>
    /\ unique_names = EmptyDict
    /\ idx = 0
    /\ workflow_tasks = EmptyDict
    /\ error = NoError
    /\ first_run = EmptyDict
    /\ run = 1

SecretInstances ==
    {KubernetesSecret(env_var, name, "k1") : env_var \in {"TOKEN", "PASS"},
                                             name \in {"s1", "s2"}}
VolumeInstances ==
    {VolumeMount(path, pvc_name, "", FALSE) : path \in {"/mnt", "/data"},
                                              pvc_name \in {"pvc1", "pvc2"}}
AnnotationInstances ==
    {KubernetesAnnotation(key, value) : key \in {"note", "owner"},
                                        value \in {<<"a">>, NoneChars}}
LabelInstances ==
    {KubernetesLabel(key, value) : key \in {"team", "tier"},
                                   value \in {<<"a">>, NoneChars}}
TolerationInstances ==
    {KubernetesToleration(key, <<"Exists">>, value, <<"NoSchedule">>) :
        key \in {<<"gpu">>, NoneChars},
        value \in {<<"a">>, NoneChars, <<"N", "o", "n", "e">>}}
    \cup {KubernetesToleration(<<"a">>, <<"b", ":", ":", "c">>, NoneChars, NoneChars),
          KubernetesToleration(<<"a", ":", ":", "b">>, <<"c">>, NoneChars, NoneChars)}
CachingInstances == {DisableNodeCaching(selection) : selection \in BOOLEAN}
SharedMemoryInstances == {CustomSharedMemorySize(size, "G") : size \in {None, "2"}}

\* one call of a handler with an instance
Apply(instance) ==
    /\ Len(applied) < MaxApplied
    /\ execution_object' = AddToExecutionObject(instance, execution_object)
    /\ applied' = Append(applied, instance)
    /\ UNCHANGED <<compile_vars, fn>>

add_disable_node_caching == \E instance \in CachingInstances : Apply(instance)
add_custom_shared_memory_size == \E instance \in SharedMemoryInstances : Apply(instance)
add_kubernetes_secret == \E instance \in SecretInstances : Apply(instance)
add_mounted_volume == \E instance \in VolumeInstances : Apply(instance)
add_kubernetes_pod_annotation == \E instance \in AnnotationInstances : Apply(instance)
add_kubernetes_pod_label == \E instance \in LabelInstances : Apply(instance)
add_kubernetes_toleration == \E instance \in TolerationInstances : Apply(instance)

NextHandlers ==
    \/ add_disable_node_caching
    \/ add_custom_shared_memory_size
    \/ add_kubernetes_secret
    \/ add_mounted_volume
    \/ add_kubernetes_pod_annotation
    \/ add_kubernetes_pod_label
    \/ add_kubernetes_toleration

InitHandlers == InitNoCall /\ InitIdle

SpecHandlers == InitHandlers /\ [][NextHandlers]_vars

ContainerKinds ==
    {"KubernetesSecret", "VolumeMount", "KubernetesAnnotation", "KubernetesLabel",
     "KubernetesToleration"}

\* the sub-key of the instances of a kind
ContainerOf(kind) ==
    CASE kind = "KubernetesSecret" -> KeyKubernetesSecrets
      [] kind = "VolumeMount" -> KeyKubernetesVolumes
      [] kind = "KubernetesAnnotation" -> KeyPodAnnotations
      [] kind = "KubernetesLabel" -> KeyPodLabels
      [] kind = "KubernetesToleration" -> KeyKubernetesTolerations

\* the identifying key of an instance
IdentifyingKey(instance) ==
    CASE instance.kind = "KubernetesSecret" -> instance.env_var
      [] instance.kind = "VolumeMount" -> instance.path
      [] instance.kind = "KubernetesAnnotation" -> instance.key
      [] instance.kind = "KubernetesLabel" -> instance.key
      [] instance.kind = "KubernetesToleration" -> TolerationHash(instance)

\* the values of an instance as an entry carries them; a label or an
\* annotation without a value carries the empty string
ValuesOf(instance) ==
    CASE instance.kind = "KubernetesSecret" -> [name |-> instance.name, key |-> instance.key]
      [] instance.kind = "VolumeMount" ->
            [pvc_name |-> instance.pvc_name, sub_path |-> instance.sub_path,
             read_only |-> instance.read_only]
      [] instance.kind \in {"KubernetesAnnotation", "KubernetesLabel"} ->
            IF instance.value = NoneChars THEN <<>> ELSE instance.value
      [] instance.kind = "KubernetesToleration" ->
            [key |-> instance.key, operator |-> instance.operator,
             value |-> instance.value, effect |-> instance.effect]

AppliedOf(kind) == {k \in DOMAIN applied : applied[k].kind = kind}

\* k is the last application of an instance with its identifying key
IsLast(k) ==
    \A j \in AppliedOf(applied[k].kind) :
        j > k => IdentifyingKey(applied[j]) # IdentifyingKey(applied[k])

\* C8: after any sequence of secrets, volumes, annotations, labels and
\* tolerations is applied to one execution object, each container holds
\* exactly one entry per distinct identifying key, with the values of the last
\* instance applied with that key
C8_OneEntryPerKeyLastWins ==
    \A kind \in ContainerKinds :
        IF AppliedOf(kind) = {}
        THEN ContainerOf(kind) \notin DOMAIN execution_object
        ELSE /\ ContainerOf(kind) \in DOMAIN execution_object
             /\ DOMAIN execution_object[ContainerOf(kind)]
                    = {IdentifyingKey(applied[k]) : k \in AppliedOf(kind)}
             /\ \A k \in AppliedOf(kind) :
                    IsLast(k) =>
                        execution_object[ContainerOf(kind)][IdentifyingKey(applied[k])]
                            = ValuesOf(applied[k])

\* two instances with one identifying key and different values were applied,
\* and a toleration was applied twice: one entry each
C8_Witness ==
    /\ \E j, k \in DOMAIN applied :
        /\ j < k
        /\ applied[j].kind = "KubernetesToleration"
        /\ applied[j] = applied[k]
        /\ Cardinality(DOMAIN execution_object[KeyKubernetesTolerations]) = 1
    /\ \E j, k \in DOMAIN applied :
        /\ j < k
        /\ applied[j].kind = "KubernetesToleration"
        /\ applied[k].kind = "KubernetesLabel"

(***************************************************************************)
(* The pure functions, called once with arguments drawn from bounded sets. *)
(***************************************************************************)
MaxNameLen == 3
MaxFiles == 2

\* the sequences over S of length at most n
SeqsUpTo(S, n) == UNION {[1..k -> S] : k \in 0..n}

ParamNameChars == {"A", "a", "_", " ", "!", "2"}

ParamNames ==
    SeqsUpTo(ParamNameChars, MaxNameLen)
        \cup {<<"M", "y", " ", "P", "a", "r", "a", "m", "!">>,
              <<"2", "n", "d", "_", "v", "a", "l", "u", "e">>}

FileNames == {<<"a", ".", "csv">>, <<"b", ";", "c">>, <<";">>}

\* environments: none, the CRI-O settings of lines 677-690, and settings that
\* also carry the work directory name
CrioArguments ==
    {NoneDict, CrioRuntimeSettings,
     [container_work_dir_name |-> "jupyter-work-dir"] @@ CrioRuntimeSettings}

\* lines 87-88: the members of WorkflowEngineType, name to value
WorkflowEngineTypeMembers == [ARGO |-> "argo", TEKTON |-> "tekton"]

\* lines 90-95: WorkflowEngineType.get_instance_by_name
GetInstanceByName(name) ==
    LET key == LowerEngine(name)
    IN IF key \in DOMAIN WorkflowEngineTypeMembers
       THEN Return([member |-> key])
       ELSE Raise("KeyError", [key |-> key])

EngineNames == {"ARGO", "Argo", "argo", "TEKTON", "Tekton", "tekton", "airflow", ""}

InitFunctions ==
    /\ \/ \E name \in ParamNames :
            fn = [name |-> "_sanitize_param_name", arg |-> name, called |-> FALSE]
       \/ \E name \in EngineNames :
            fn = [name |-> "get_instance_by_name", arg |-> name, called |-> FALSE]
       \/ \E cos_inputs, cos_outputs \in SeqsUpTo(FileNames, MaxFiles),
             crio_runtime_settings \in CrioArguments :
            fn = [name |-> "_compose_container_command_args",
                  cos_inputs |-> cos_inputs, cos_outputs |-> cos_outputs,
                  crio_runtime_settings |-> crio_runtime_settings,
                  called |-> FALSE]
    /\ InitNoCall
    /\ execution_object = EmptyDict
    /\ applied = <<>>

sanitize_param_name ==
    /\ fn.name = "_sanitize_param_name"
    /\ ~fn.called
    /\ fn' = [name |-> fn.name, arg |-> fn.arg, called |-> TRUE,
              result |-> SanitizeParamName(fn.arg)]
    /\ UNCHANGED <<compile_vars, handler_vars>>

compose_container_command_args ==
    /\ fn.name = "_compose_container_command_args"
    /\ ~fn.called
    /\ fn' = [name |-> fn.name, cos_inputs |-> fn.cos_inputs,
              cos_outputs |-> fn.cos_outputs,
              crio_runtime_settings |-> fn.crio_runtime_settings,
              called |-> TRUE,
              result |-> ComposeContainerCommandArgs(
                            <<"pipe">>, "http://minio:9000", "bucket", <<"prefix">>,
                            <<"archive.tar.gz">>, <<"nb.ipynb">>,
                            fn.cos_inputs, fn.cos_outputs, fn.crio_runtime_settings)]
    /\ UNCHANGED <<compile_vars, handler_vars>>

get_instance_by_name ==
    /\ fn.name = "get_instance_by_name"
    /\ ~fn.called
    /\ fn' = [name |-> fn.name, arg |-> fn.arg, called |-> TRUE,
              result |-> GetInstanceByName(fn.arg)]
    /\ UNCHANGED <<compile_vars, handler_vars>>

NextFunctions ==
    \/ sanitize_param_name
    \/ get_instance_by_name
    \/ compose_container_command_args

SpecFunctions == InitFunctions /\ [][NextFunctions]_vars

Sanitized == fn.name = "_sanitize_param_name" /\ fn.called

\* the algorithm in words: lowercase; every run of separator characters
\* becomes one space; spaces are collapsed and trimmed; n is prepended to a
\* leading digit; spaces become underscores
SanitizeInWords(name, separators) ==
    LET spaced == ReSubRuns(Lower(name), separators, <<" ">>)
        trimmed == RStrip(LStrip(ReSubRuns(spaced, {" "}, <<" ">>), {" "}), {" "})
        prefixed == IF trimmed # <<>> /\ trimmed[1] \in DigitChars
                    THEN <<"n">> \o trimmed
                    ELSE trimmed
    IN [i \in DOMAIN prefixed |-> IF prefixed[i] = " " THEN "_" ELSE prefixed[i]]

\* C5 as claimed: the result is that of the algorithm with the runs of
\* non-word characters as separators
C5_SanitizeNonWordRuns ==
    Sanitized => fn.result = SanitizeInWords(fn.arg, Chars \ WordChars)

\* C5 as amended: the result is that of the algorithm with the runs of
\* non-word characters and underscores as separators; "My Param!" gives
\* "my_param" and "2nd_value" gives "n2nd_value"
C5_SanitizeNonWordOrUnderscoreRuns ==
    Sanitized =>
        /\ fn.result = SanitizeInWords(fn.arg, (Chars \ WordChars) \cup {"_"})
        /\ fn.arg = <<"M", "y", " ", "P", "a", "r", "a", "m", "!">>
                => fn.result = <<"m", "y", "_", "p", "a", "r", "a", "m">>
        /\ fn.arg = <<"2", "n", "d", "_", "v", "a", "l", "u", "e">>
                => fn.result = <<"n", "2", "n", "d", "_", "v", "a", "l", "u", "e">>

\* a name with a leading underscore and a digit was sanitized
C5_Witness ==
    /\ Sanitized
    /\ fn.arg = <<"_", "2", "A">>
    /\ fn.result = <<"n", "2", "a">>

Composed == fn.name = "_compose_container_command_args" /\ fn.called

HasSeparator(file_list) ==
    \E i \in DOMAIN file_list : Contains(file_list[i], INOUT_SEPARATOR)

\* the settings are None or carry the keys the function reads
SettingsComplete(crio_runtime_settings) ==
    \/ crio_runtime_settings = NoneDict
    \/ "container_work_dir_name" \in DOMAIN crio_runtime_settings

MaxValueLen == 4

ListValueChars == {" ", "[", "]", ",", "'elem1'", "elem1"}
DictValueChars == {" ", "{", "}", ":", "'key1'", "key1"}

\* the values of the tests (lines 265-333) that the alphabets reach
ListValues ==
    {PyStr(s) : s \in SeqsUpTo(ListValueChars, MaxValueLen)}
        \cup {PyNone, PyStr(<<"None">>), PyStr(<<" ", "None", " ">>),
              PyStr(<<" ", " ", "[", "'elem1'", ",", " ", " ", "'elem1'", " ", "]", " ">>),
              PyStr(<<"[", "elem1", ",", " ", "elem1", "]">>),
              PyStr(<<" ", " ", "elem1", ",", " ", "elem1", " ", " ">>)}

DictValues ==
    {PyStr(s) : s \in SeqsUpTo(DictValueChars, MaxValueLen)}
        \cup {PyNone, PyStr(<<"None">>), PyStr(<<" ", "None", " ">>),
              PyStr(<<" ", "{", " ", "'key1'", ":", " ", "'key1'", "}", " ">>),
              PyStr(<<" ", "{", " ", "key1", ":", " ", "key1", " ", "}", " ">>),
              PyStr(<<"{", "'key1'", ":", " ", "{", "key1", ":", "'key1'", "}", "}">>)}

InitValues ==
    /\ \/ \E value \in ListValues :
            fn = [name |-> "_process_list_value", arg |-> value, called |-> FALSE]
       \/ \E value \in DictValues :
            fn = [name |-> "_process_dictionary_value", arg |-> value, called |-> FALSE]
    /\ InitNoCall
    /\ execution_object = EmptyDict
    /\ applied = <<>>

process_list_value ==
    /\ fn.name = "_process_list_value"
    /\ ~fn.called
    /\ fn' = [name |-> fn.name, arg |-> fn.arg, called |-> TRUE,
              result |-> ProcessListValue(fn.arg)]
    /\ UNCHANGED <<compile_vars, handler_vars>>

process_dictionary_value ==
    /\ fn.name = "_process_dictionary_value"
    /\ ~fn.called
    /\ fn' = [name |-> fn.name, arg |-> fn.arg, called |-> TRUE,
              result |-> ProcessDictionaryValue(fn.arg)]
    /\ UNCHANGED <<compile_vars, handler_vars>>

NextValues ==
    \/ process_list_value
    \/ process_dictionary_value

SpecValues == InitValues /\ [][NextValues]_vars

\* a call of one of the two functions has returned
Processed == fn.name \in {"_process_list_value", "_process_dictionary_value"} /\ fn.called

\* the argument is a text that holds more than whitespace and is neither
\* None nor a display of the kind the function reads
Unparseable ==
    /\ fn.arg.t = "str"
    /\ Tokens(fn.arg.v) # <<>>
    /\ Tokens(fn.arg.v) # <<"None">>
    /\ IF fn.name = "_process_list_value"
       THEN ~IsListLiteral(fn.arg.v)
       ELSE ~IsDictLiteral(fn.arg.v)

\* text is the argument without the whitespace around it
IsArgumentTrimmed(text) ==
    /\ \E a, b \in 0..Len(fn.arg.v) :
        /\ a + Len(text) + b = Len(fn.arg.v)
        /\ \A k \in 1..a : fn.arg.v[k] \in WhitespaceChars
        /\ \A k \in 1..Len(text) : text[k] = fn.arg.v[a + k]
        /\ \A k \in 1..b : fn.arg.v[a + Len(text) + k] \in WhitespaceChars
    /\ text # <<>> => text[1] \notin WhitespaceChars /\ text[Len(text)] \notin WhitespaceChars

\* C12 as stated: for an input that cannot be parsed the function returns the
\* input text unchanged, character for character, with its leading and
\* trailing whitespace
C12_UnparseableReturnedUnchanged ==
    Processed /\ Unparseable =>
        fn.result.t = "str" /\ fn.result.v = fn.arg.v

\* C12 amended: for an input that cannot be parsed the function raises
\* nothing and returns a text, the input without its leading and trailing
\* whitespace and otherwise character for character
C12_UnparseableReturnedStripped ==
    Processed /\ Unparseable =>
        fn.result.t = "str" /\ IsArgumentTrimmed(fn.result.v)

\* a call with unparseable text between leading and trailing whitespace has
\* returned the text without the whitespace
C12_Witness ==
    /\ Processed
    /\ Unparseable
    /\ Len(fn.arg.v) >= 3
    /\ fn.arg.v[1] \in WhitespaceChars
    /\ fn.arg.v[Len(fn.arg.v)] \in WhitespaceChars
    /\ fn.result.t = "str"
    /\ fn.result.v # <<>>
    /\ Len(fn.result.v) < Len(fn.arg.v)

(***************************************************************************)
(* process() and export() (lines 119-503), _generate_pipeline_dsl (lines   *)
(* 516-577) and _compile_pipeline_dsl (lines 579-625).  The authenticator, *)
(* the Kubeflow Pipelines client, the template engine, the compiler and    *)
(* the file system are outside the processor: each of their calls either   *)
(* succeeds or raises, and every call made is appended to effects.  The    *)
(* text of an exception is the sequence of its pieces, so that a message   *)
(* names a pipeline when the pipeline's name is among the pieces.          *)
(***************************************************************************)
MaxProcessNodes == 2

Timestamp == <<"0", "8", "1", "5">>
ApiEndpoint == <<"http://kfp:8080">>
ExportPath == <<"/home/out">>
\* the text of an exception raised outside the processor
ForeignText == <<"{ex}">>

\* lines 142 and 462: metadata.get("engine", "argo").lower()
WorkflowEngine(engine) == IF engine = None THEN "argo" ELSE LowerEngine(engine)

\* lines 143 and 463: workflow_engine == "tekton" and not TektonClient
TektonNotInstalled(workflow_engine, tekton_client) ==
    workflow_engine = "tekton" /\ ~tekton_client

\* lines 176-190 and 613-617: the Tekton flavor for "tekton", else Argo's
Flavor(workflow_engine) == IF workflow_engine = "tekton" THEN "Tekton" ELSE "Argo"

\* lines 245, 279: names derived from the pipeline name
PipelinePath(pipeline_name) == <<"/tmp/">> \o pipeline_name \o <<".tar.gz">>
PipelineInstanceId(pipeline_name) == pipeline_name \o <<"-">> \o Timestamp

RuntimeError(message) == Raise("RuntimeError", [message |-> message])

CheckRuntimeConfiguration(p) ==
    <<" - Check Kubeflow Pipelines runtime configuration: '">>
        \o p.runtime_config \o <<"'">>

\* lines 144-147 and 465
TektonNotInstalledError(op) ==
    Raise("ValueError", [message |->
        IF op = "process"
        THEN <<"Python package kfp-tekton is not installed. ",
               "Please install using elyra[kfp-tekton] to use Tekton engine.">>
        ELSE <<"kfp-tekton not installed. Please install using elyra[kfp-tekton] ",
               "to use Tekton engine.">>])

\* line 170
AuthenticationFailed == RuntimeError(<<"Kubeflow authentication failed: ">> \o ForeignText)

\* lines 204-208 (the tip is empty unless the endpoint ends in /pipelines)
ClientFailed(p) ==
    RuntimeError(<<"Failed to initialize kfp.Client() against: '">> \o ApiEndpoint
                 \o <<"'">> \o CheckRuntimeConfiguration(p))

\* lines 221-225
ListExperimentsFailed(p) ==
    RuntimeError(<<"Failed to kfp.Client().list_experiments() against: '">>
                 \o ApiEndpoint \o <<"'">> \o CheckRuntimeConfiguration(p)
                 \o <<" - ", "[TIP: you probably need to set a namespace]">>)

\* lines 263-266
GetPipelineIdFailed(p) ==
    RuntimeError(<<"Failed to get ID of Kubeflow pipeline: '">> \o p.name \o <<"'">>
                 \o CheckRuntimeConfiguration(p))

\* lines 299-301
CompilingFailed(p, workflow_engine) ==
    RuntimeError(<<"Error compiling pipeline '">> \o p.name \o <<"' with engine '">>
                 \o <<workflow_engine>> \o <<"' to: '">> \o PipelinePath(p.name)
                 \o <<"'">>)

\* lines 620-622
CompilerFailed(workflow_engine, output_file) ==
    RuntimeError(<<"Failed to compile pipeline with workflow_engine '">>
                 \o <<workflow_engine>> \o <<"' to '">> \o output_file \o <<"'">>)

\* lines 350-354
UploadFailed(p) ==
    RuntimeError(<<"Failed to upload Kubeflow pipeline '">> \o p.name \o <<"'">>
                 \o CheckRuntimeConfiguration(p))

\* lines 274 and 368-371: the experiment is named pipeline_name.lower()
CreateExperimentFailed(p) ==
    RuntimeError(<<"Failed to create Kubeflow experiment: '">> \o Lower(p.name)
                 \o <<"'">> \o CheckRuntimeConfiguration(p))

\* lines 382, 390-393 and 398-401: the job is named pipeline_instance_id
RunPipelineFailed(p) ==
    RuntimeError(<<"Failed to create Kubeflow pipeline run: '">>
                 \o PipelineInstanceId(p.name) \o <<"'">>
                 \o CheckRuntimeConfiguration(p))

\* line 468
FileExists == Raise("ValueError", [message |-> <<"File ">> \o ExportPath
                                               \o <<" already exists.">>])

\* lines 494-497
PreProcessingFailed(p) ==
    RuntimeError(<<"Error pre-processing pipeline '">> \o p.name
                 \o <<"' for export to '">> \o ExportPath \o <<"'">>)

\* lines 296-301: process() lets a RuntimeError of the generation and the
\* compilation pass and wraps every other exception
ProcessCompileError(ex, p, workflow_engine) ==
    IF ex.type = "RuntimeError" THEN ex ELSE CompilingFailed(p, workflow_engine)

\* lines 489-497: export() does the same with its own message (none of the
\* exceptions of the model is chained to a cause)
ExportCompileError(ex, p) ==
    IF ex.type = "RuntimeError" THEN ex ELSE PreProcessingFailed(p)

\* the except clause of the caller of _generate_pipeline_dsl
CompileError(op, ex, p, workflow_engine) ==
    IF op = "process" THEN ProcessCompileError(ex, p, workflow_engine)
    ELSE ExportCompileError(ex, p)

\* the overwrite flag read the wrong way round
ExportPathTakenInverted(file, overwrite) == file.exists /\ overwrite

\* line 467: Path(absolute_pipeline_export_path).exists() and not overwrite
ExportPathTaken(file, overwrite) == file.exists /\ ~overwrite

\* the definitions keyed by a hash that takes the id of the task in
RECURSIVE GatherComponentDefinitionsPerTask(_, _, _)
GatherComponentDefinitionsPerTask(tasks, order, acc) ==
    IF order = <<>> THEN acc
    ELSE LET operation == tasks[Head(order)]
         IN GatherComponentDefinitionsPerTask(tasks, Tail(order),
                DictSet(acc, [sha256 |-> [id |-> operation.id,
                                          text |-> operation.component_definition]],
                        operation.component_definition))

\* lines 549-552: the definitions of the tasks, keyed by their hash
RECURSIVE GatherComponentDefinitions(_, _, _)
GatherComponentDefinitions(tasks, order, acc) ==
    IF order = <<>> THEN acc
    ELSE LET operation == tasks[Head(order)]
         IN GatherComponentDefinitions(tasks, Tail(order),
                DictSet(acc, operation.component_definition_hash,
                        operation.component_definition))

\* the ids of the tasks in the order they were added to workflow_tasks
TaskOrder == [i \in 1..Len(sorted_operations) |-> Operations[sorted_operations[i]].id]

Calling(op, at) == proc.op = op /\ proc.pc = at
InCall(at) == proc.op \in {"process", "export"} /\ proc.pc = at

ProcessRaises(ex) ==
    proc' = [proc EXCEPT !.pc = "raised", !.error = ex, !.raised_at = proc.pc]
Effect(e) == effects' = Append(effects, e)

tasks_vars == <<pipeline, submitted, call, pc, sorted_operations, unique_names, idx,
                workflow_tasks, error, first_run, run>>

\* lines 132-147 and 459-465: look the runtime configuration up and read
\* the engine from it
GetMetadataConfiguration ==
    /\ InCall("metadata")
    /\ \E found \in BOOLEAN :
        LET workflow_engine == WorkflowEngine(proc.engine)
        IN IF ~found
           THEN ProcessRaises(RuntimeError(<<"_get_metadata_configuration">>))
           ELSE IF TektonNotInstalled(workflow_engine, proc.tekton_client)
           THEN ProcessRaises(TektonNotInstalledError(proc.op))
           ELSE proc' = [proc EXCEPT !.workflow_engine = workflow_engine,
                            !.pc = IF proc.op = "process" THEN "authenticate"
                                   ELSE "exists"]
    /\ UNCHANGED <<tasks_vars, handler_vars, fn, effects,
                   unique_component_definitions, export_file>>

\* lines 157-170
Authenticate ==
    /\ Calling("process", "authenticate")
    /\ \E ok \in BOOLEAN :
        IF ok THEN /\ proc' = [proc EXCEPT !.pc = "client"]
                   /\ Effect([call |-> "authenticate"])
        ELSE /\ ProcessRaises(AuthenticationFailed)
             /\ UNCHANGED effects
    /\ UNCHANGED <<tasks_vars, handler_vars, fn, unique_component_definitions,
                   export_file>>

\* lines 175-208
CreateClient ==
    /\ Calling("process", "client")
    /\ \E ok \in BOOLEAN :
        IF ok THEN /\ proc' = [proc EXCEPT !.pc = "namespace"]
                   /\ Effect([call |-> "Client",
                              flavor |-> Flavor(proc.workflow_engine)])
        ELSE /\ ProcessRaises(ClientFailed(pipeline))
             /\ UNCHANGED effects
    /\ UNCHANGED <<tasks_vars, handler_vars, fn, unique_component_definitions,
                   export_file>>

\* lines 213-225
ListExperiments ==
    /\ Calling("process", "namespace")
    /\ \E ok \in BOOLEAN :
        IF ok THEN /\ proc' = [proc EXCEPT !.pc = "pipeline_id"]
                   /\ Effect([call |-> "list_experiments"])
        ELSE /\ ProcessRaises(ListExperimentsFailed(pipeline))
             /\ UNCHANGED effects
    /\ UNCHANGED <<tasks_vars, handler_vars, fn, unique_component_definitions,
                   export_file>>

\* lines 250-266
GetPipelineId ==
    /\ Calling("process", "pipeline_id")
    /\ \E outcome \in {"raises", None, "id-1"} :
        IF outcome = "raises"
        THEN /\ ProcessRaises(GetPipelineIdFailed(pipeline))
             /\ UNCHANGED effects
        ELSE /\ proc' = [proc EXCEPT !.pc = "generate", !.pipeline_id = outcome]
             /\ Effect([call |-> "get_pipeline_id"])
    /\ UNCHANGED <<tasks_vars, handler_vars, fn, unique_component_definitions,
                   export_file>>

\* line 467-468
CheckExportPath ==
    /\ Calling("export", "exists")
    /\ IF ExportPathTaken(export_file, proc.overwrite)
       THEN ProcessRaises(FileExists)
       ELSE proc' = [proc EXCEPT !.pc = "generate"]
    /\ UNCHANGED <<tasks_vars, handler_vars, fn, effects,
                   unique_component_definitions, export_file>>

\* lines 282-287, 473-478 and 541-547: _generate_pipeline_dsl is called and
\* calls _generate_workflow_tasks
GeneratePipelineDsl ==
    /\ InCall("generate")
    /\ pc = "idle"
    /\ pc' = "start"
    /\ proc' = [proc EXCEPT !.pc = "tasks"]
    /\ Effect([call |-> "_generate_pipeline_dsl"])
    /\ UNCHANGED <<pipeline, submitted, call, sorted_operations, unique_names, idx,
                   workflow_tasks, error, first_run, run>>
    /\ UNCHANGED <<handler_vars, fn, unique_component_definitions, export_file>>

\* an exception of _generate_workflow_tasks leaves _generate_pipeline_dsl and
\* reaches the except clause of process() or export()
TasksRaised ==
    /\ InCall("tasks")
    /\ pc = "raised"
    /\ ProcessRaises(CompileError(proc.op, error, pipeline, proc.workflow_engine))
    /\ UNCHANGED <<tasks_vars, handler_vars, fn, effects,
                   unique_component_definitions, export_file>>

\* lines 549-552
GatherDefinitions ==
    /\ InCall("tasks")
    /\ pc = "done"
    /\ unique_component_definitions' =
            GatherComponentDefinitions(workflow_tasks, TaskOrder, EmptyDict)
    /\ proc' = [proc EXCEPT !.pc = "render"]
    /\ UNCHANGED <<tasks_vars, handler_vars, fn, effects, export_file>>

\* lines 555-563: render the template; an exception reaches the except
\* clause of the caller of _generate_pipeline_dsl
RenderDsl ==
    /\ InCall("render")
    /\ \E ok \in BOOLEAN :
        IF ok
        THEN proc' = [proc EXCEPT
                !.dsl = [generated |-> TRUE, workflow_tasks |-> workflow_tasks,
                         component_definitions |-> unique_component_definitions],
                !.pc = "format"]
        ELSE ProcessRaises(CompileError(proc.op,
                Raise("Exception", [message |-> ForeignText]), pipeline,
                proc.workflow_engine))
    /\ UNCHANGED <<tasks_vars, handler_vars, fn, effects,
                   unique_component_definitions, export_file>>

\* lines 565-577: format the code; when that fails the DSL is logged and the
\* exception is raised again
FormatDsl ==
    /\ InCall("format")
    /\ \E ok \in BOOLEAN :
        IF ok
        THEN /\ proc' = [proc EXCEPT
                    !.pc = IF proc.op = "process" THEN "compile" ELSE "write"]
             /\ UNCHANGED effects
        ELSE /\ Effect([call |-> "log.error", dsl |-> proc.dsl])
             /\ ProcessRaises(CompileError(proc.op,
                    Raise("Exception", [message |-> ForeignText]), pipeline,
                    proc.workflow_engine))
    /\ UNCHANGED <<tasks_vars, handler_vars, fn, unique_component_definitions,
                   export_file>>

\* lines 290-294 and 596-622: compile the DSL into the package to upload
CompilePipelineDsl ==
    /\ Calling("process", "compile")
    /\ Effect([call |-> "_compile_pipeline_dsl",
               flavor |-> Flavor(proc.workflow_engine)])
    /\ \E ok \in BOOLEAN :
        IF ok THEN proc' = [proc EXCEPT !.pc = "upload"]
        ELSE ProcessRaises(ProcessCompileError(
                CompilerFailed(proc.workflow_engine, PipelinePath(pipeline.name)),
                pipeline, proc.workflow_engine))
    /\ UNCHANGED <<tasks_vars, handler_vars, fn, unique_component_definitions,
                   export_file>>

UploadCallAlwaysNew(pipeline_id) == "upload_pipeline"

\* lines 312-331: a pipeline that does not exist yet is created, an existing
\* one gets a new version
UploadCall(pipeline_id) ==
    IF pipeline_id = None THEN "upload_pipeline" ELSE "upload_pipeline_version"

\* lines 308-354
UploadPipeline ==
    /\ Calling("process", "upload")
    /\ \E ok \in BOOLEAN :
        IF ok THEN /\ proc' = [proc EXCEPT !.pc = "experiment"]
                   /\ Effect([call |-> UploadCall(proc.pipeline_id)])
        ELSE /\ ProcessRaises(UploadFailed(pipeline))
             /\ UNCHANGED effects
    /\ UNCHANGED <<tasks_vars, handler_vars, fn, unique_component_definitions,
                   export_file>>

\* lines 361-371
CreateExperiment ==
    /\ Calling("process", "experiment")
    /\ \E ok \in BOOLEAN :
        IF ok THEN /\ proc' = [proc EXCEPT !.pc = "run"]
                   /\ Effect([call |-> "create_experiment"])
        ELSE /\ ProcessRaises(CreateExperimentFailed(pipeline))
             /\ UNCHANGED effects
    /\ UNCHANGED <<tasks_vars, handler_vars, fn, unique_component_definitions,
                   export_file>>

\* lines 378-424: run_pipeline raises, returns None or returns the run
RunPipeline ==
    /\ Calling("process", "run")
    /\ \E outcome \in {"raises", None, "run-1"} :
        IF outcome = "raises"
        THEN /\ ProcessRaises(RunPipelineFailed(pipeline))
             /\ UNCHANGED effects
        ELSE /\ Effect([call |-> "run_pipeline", returned |-> outcome])
             /\ IF outcome = None
                THEN ProcessRaises(RunPipelineFailed(pipeline))
                ELSE proc' = [proc EXCEPT !.pc = "returned"]
    /\ UNCHANGED <<tasks_vars, handler_vars, fn, unique_component_definitions,
                   export_file>>

\* lines 480-483: open(path, "w") empties the file, write fills it
WritePythonDsl ==
    /\ Calling("export", "write")
    /\ proc.export_format = "py"
    /\ \E outcome \in {"open raises", "write raises", "written"} :
        CASE outcome = "open raises" ->
                /\ ProcessRaises(ExportCompileError(
                        Raise("OSError", [message |-> ForeignText]), pipeline))
                /\ UNCHANGED <<effects, export_file>>
          [] outcome = "write raises" ->
                /\ ProcessRaises(ExportCompileError(
                        Raise("OSError", [message |-> ForeignText]), pipeline))
                /\ Effect([call |-> "open"])
                /\ export_file' = [exists |-> TRUE, content |-> [generated |-> FALSE]]
          [] outcome = "written" ->
                /\ proc' = [proc EXCEPT !.pc = "returned"]
                /\ Effect([call |-> "open"])
                /\ export_file' = [exists |-> TRUE, content |-> proc.dsl]
    /\ UNCHANGED <<tasks_vars, handler_vars, fn, unique_component_definitions>>

\* lines 484-488 and 596-622: the compiler writes the export file
CompileExport ==
    /\ Calling("export", "write")
    /\ proc.export_format # "py"
    /\ Effect([call |-> "_compile_pipeline_dsl",
               flavor |-> Flavor(proc.workflow_engine)])
    /\ \E ok \in BOOLEAN :
        IF ok THEN /\ proc' = [proc EXCEPT !.pc = "returned"]
                   /\ export_file' = [exists |-> TRUE, content |-> proc.dsl]
        ELSE /\ ProcessRaises(ExportCompileError(
                    CompilerFailed(proc.workflow_engine, ExportPath), pipeline))
             /\ UNCHANGED export_file
    /\ UNCHANGED <<tasks_vars, handler_vars, fn, unique_component_definitions>>

\* _generate_pipeline_dsl with the call of _generate_workflow_tasks in it
GenerateDsl ==
    \/ GeneratePipelineDsl
    \/ Compile
    \/ TasksRaised
    \/ GatherDefinitions
    \/ RenderDsl
    \/ FormatDsl

NextProcess ==
    \/ GetMetadataConfiguration
    \/ Authenticate
    \/ CreateClient
    \/ ListExperiments
    \/ GetPipelineId
    \/ CheckExportPath
    \/ GenerateDsl
    \/ CompilePipelineDsl
    \/ UploadPipeline
    \/ CreateExperiment
    \/ RunPipeline
    \/ WritePythonDsl
    \/ CompileExport

\* the engine of the runtime configuration and whether kfp-tekton is installed
EngineSettings ==
    {[engine |-> None, tekton_client |-> FALSE],
     [engine |-> "Argo", tekton_client |-> TRUE],
     [engine |-> "TEKTON", tekton_client |-> TRUE],
     [engine |-> "tekton", tekton_client |-> FALSE],
     [engine |-> "foo", tekton_client |-> TRUE]}

ProcessVariants == {"plain", "semicolon", "value"}

\* a file a previous export left behind
OldFile == [exists |-> TRUE, content |-> [generated |-> TRUE, workflow_tasks |-> EmptyDict,
                                          component_definitions |-> EmptyDict]]

Frame(op, setting, export_format, overwrite, file) ==
    [op |-> op, pc |-> "metadata", engine |-> setting.engine,
     tekton_client |-> setting.tekton_client, workflow_engine |-> None,
     export_format |-> export_format, overwrite |-> overwrite,
     original_file |-> file, pipeline_id |-> None,
     dsl |-> [generated |-> FALSE], error |-> NoError, raised_at |-> None]

InitProcess ==
    /\ \E n \in 1..MaxProcessNodes :
        \E variants \in [1..n -> ProcessVariants], failing \in 0..n :
            /\ pipeline = Pipeline([i \in 1..n |->
                    TaskNode(variants[i], NodeId(i), <<>>)])
            /\ call = [Call(None, FALSE) EXCEPT
                    !.pipeline_name = pipeline.name,
                    !.pipeline_instance_id = PipelineInstanceId(pipeline.name),
                    !.failing_uploads = IF failing = 0 THEN {} ELSE {NodeId(failing)}]
    /\ submitted = pipeline
    /\ pc = "idle"
    /\ sorted_operations = <<>>
    /\ unique_names = EmptyDict
    /\ idx = 0
    /\ workflow_tasks = EmptyDict
    /\ error = NoError
    /\ first_run = EmptyDict
    /\ run = 1
    /\ InitIdle
    /\ effects = <<>>
    /\ unique_component_definitions = EmptyDict
    /\ \E setting \in EngineSettings :
        \/ /\ proc = Frame("process", setting, None, FALSE, NoFile)
           /\ export_file = NoFile
        \/ \E export_format \in {"py", "yaml"}, overwrite \in BOOLEAN,
              file \in {NoFile, OldFile} :
            /\ file = NoFile => ~overwrite
            /\ proc = Frame("export", setting, export_format, overwrite, file)
            /\ export_file = file

SpecProcess == InitProcess /\ [][NextProcess]_vars

(***************************************************************************)
(* Properties of process() and export().                                   *)
(***************************************************************************)
\* text occurs in the message
Names(message, text) ==
    \E i \in 0..(Len(message) - Len(text)) :
        SubSeq(message, i + 1, i + Len(text)) = text

\* str(ex) of an exception: the message it was built with; the text of the
\* exceptions Python raises itself names what the failing expression names
ErrorText(ex) ==
    IF "message" \in DOMAIN ex.detail THEN ex.detail.message
    ELSE CASE ex.type = "ValueError" ->
                <<"Illegal character (", ";", ") found in filename '">>
                    \o ex.detail.file \o <<"'.">>
           [] ex.type = "KeyError" -> <<"'", ex.detail.key, "'">>
           [] ex.type = "AttributeError" ->
                <<"'NoneType' object has no attribute 'get'">>
           [] ex.type = "TypeError" -> <<"string indices must be integers">>
           [] ex.type = "FileNotFoundError" ->
                <<"[Errno 2] No such file or directory: '", ex.detail.path, "'">>
           [] OTHER -> ForeignText

EffectCalls == {effects[i].call : i \in DOMAIN effects}

CompilationWork ==
    {"_generate_pipeline_dsl", "_upload_dependencies_to_object_store",
     "_compile_pipeline_dsl", "upload_pipeline", "upload_pipeline_version", "open"}

UnknownEngine ==
    /\ proc.op \in {"process", "export"}
    /\ proc.engine # None
    /\ LowerEngine(proc.engine) \notin {"argo", "tekton"}

\* C13: with an engine that is neither argo nor tekton, process() and
\* export() generate no DSL, compile nothing, upload nothing and write no
\* file, and they do not return
C13_UnknownEngineIsFatal ==
    UnknownEngine =>
        /\ EffectCalls \cap CompilationWork = {}
        /\ export_file = proc.original_file
        /\ proc.pc # "returned"

Blocked ==
    /\ proc.op = "export"
    /\ proc.original_file.exists
    /\ ~proc.overwrite

LookupFailed == proc.error = RuntimeError(<<"_get_metadata_configuration">>)

\* C14: export() without overwrite on a path that exists generates no DSL,
\* uploads no archive, does not open the file and leaves its content as it
\* was; it ends with a ValueError (once the runtime configuration was found),
\* which names the file when the engine passed the check of line 463
C14_ExistingFileBlocksExport ==
    Blocked =>
        /\ EffectCalls = {}
        /\ pc = "idle"
        /\ ~proc.dsl.generated
        /\ export_file = proc.original_file
        /\ proc.pc \in {"metadata", "exists", "raised"}
        /\ proc.pc = "raised" =>
                \/ LookupFailed
                \/ proc.error = TektonNotInstalledError("export")
                \/ proc.error = FileExists
        /\ proc.pc = "raised" /\ ~LookupFailed => proc.error.type = "ValueError"

C14_Witness ==
    /\ Blocked
    /\ proc.pc = "raised"
    /\ proc.error = FileExists
    /\ export_file = OldFile

\* process() failed at one of its steps from the authentication on
StepFailed ==
    /\ proc.op = "process"
    /\ proc.pc = "raised"
    /\ ~LookupFailed
    /\ proc.error # TektonNotInstalledError("process")

\* C15: the message of every error process() raises at one of its steps
\* names the pipeline and the runtime configuration
C15_FailureNamesPipelineAndConfiguration ==
    StepFailed =>
        /\ Names(ErrorText(proc.error), pipeline.name)
        /\ Names(ErrorText(proc.error), pipeline.runtime_config)

GenericIds ==
    {Operations[i].id : i \in {j \in DOMAIN Operations : Operations[j].kind = "generic"}}

Submissions == {"upload_pipeline", "upload_pipeline_version", "run_pipeline"}

ArchiveUploadFailed ==
    /\ error.raised
    /\ "step" \in DOMAIN error.detail
    /\ error.detail.step = "_upload_dependencies_to_object_store"

\* C17: when process() uploads the package or starts the run, the archive of
\* every generic node has been uploaded before; after a failed archive
\* upload neither is ever called
C17_ArchivesBeforeSubmission ==
    proc.op = "process" =>
        /\ \A i \in DOMAIN effects :
                effects[i].call \in Submissions =>
                    \A id \in GenericIds : \E j \in 1..(i - 1) :
                        effects[j] = [call |-> "_upload_dependencies_to_object_store",
                                      node |-> id]
        /\ ArchiveUploadFailed => EffectCalls \cap Submissions = {}
        /\ ArchiveUploadFailed => proc.pc \in {"tasks", "raised"}

C17_Witness ==
    /\ proc.op = "process"
    /\ proc.pc = "returned"
    /\ Cardinality(GenericIds) = 2
    /\ "run_pipeline" \in EffectCalls

Gathered == proc.op \in {"process", "export"} /\ pc = "done" /\ proc.pc # "tasks"

TaskDefinitions ==
    {workflow_tasks[id].component_definition : id \in DOMAIN workflow_tasks}

\* C18: the map of component definitions has one entry per distinct
\* definition of the tasks, stored under its hash: tasks with the same
\* definition share the entry, tasks with different definitions do not, and
\* the hash of every task is a key
C18_OneEntryPerDefinition ==
    Gathered =>
        /\ \A id \in DOMAIN workflow_tasks :
            /\ workflow_tasks[id].component_definition_hash
                    \in DOMAIN unique_component_definitions
            /\ unique_component_definitions[workflow_tasks[id].component_definition_hash]
                    = workflow_tasks[id].component_definition
        /\ \A key \in DOMAIN unique_component_definitions :
            \E id \in DOMAIN workflow_tasks :
                key = workflow_tasks[id].component_definition_hash
        /\ Cardinality(DOMAIN unique_component_definitions)
                = Cardinality(TaskDefinitions)
        /\ \A a, b \in DOMAIN workflow_tasks :
            (workflow_tasks[a].component_definition
                    = workflow_tasks[b].component_definition)
                <=> (workflow_tasks[a].component_definition_hash
                        = workflow_tasks[b].component_definition_hash)

C18_Witness ==
    /\ Gathered
    /\ Cardinality(DOMAIN workflow_tasks) = 2
    /\ Cardinality(DOMAIN unique_component_definitions) = 1

\* the node whose descriptor was being built when the exception was raised
FailingNode == Operations[sorted_operations[idx]]

BuildingFailed == pc = "raised" /\ idx >= 1

\* C16: when building the descriptor of a node fails, no task list is
\* returned, and the error of _generate_workflow_tasks names the pipeline and
\* the node (by its id or by its name)
C16_FailureIdentifiesPipelineAndNode ==
    /\ Returned =>
            DOMAIN workflow_tasks = {Operations[i].id : i \in DOMAIN Operations}
    /\ BuildingFailed =>
        /\ Names(ErrorText(error), call.pipeline_name)
        /\ \/ Names(ErrorText(error), FailingNode.id)
           \/ Names(ErrorText(error), FailingNode.name)

(***************************************************************************)
(* The run name of the generic tasks.                                      *)
(***************************************************************************)
GenericTaskIds ==
    {id \in DOMAIN workflow_tasks : ~workflow_tasks[id].uses_custom_component}

\* C21: in a compilation started by process() or export(), the set_run_name
\* modifier of every generic task is 'dummy value' when the engine of the
\* runtime configuration is tekton and RUN_ID_PLACEHOLDER when it is argo
C21_RunNameFollowsEngine ==
    proc.op \in {"process", "export"} /\ proc.workflow_engine \in {"argo", "tekton"} =>
        \A id \in GenericTaskIds :
            workflow_tasks[id].task_modifiers[KeySetRunName]
                = IF proc.workflow_engine = "tekton" THEN "dummy value"
                  ELSE RUN_ID_PLACEHOLDER

(***************************************************************************)
(* The properties of custom nodes that refer to an upstream output or to   *)
(* a file.                                                                 *)
(***************************************************************************)
\* the properties of node i that were given with the widget
RefsWithWidget(i, widget) ==
    {ref \in DOMAIN Operations[i].component_params :
        Operations[i].component_params[ref].widget = widget}

\* the slot of the task of node i that the property is resolved into
SlotOf(i, ref) ==
    IF SanitizeParamName(ref) \in DOMAIN Task(i).task_inputs
    THEN Task(i).task_inputs[SanitizeParamName(ref)]
    ELSE Task(i).task_modifiers[SanitizeParamName(ref)]

\* the option name without the prefix output_ it starts with
WithoutOutputPrefix(option) ==
    IF IsPrefix(<<"output", "_">>, option)
    THEN SubSeq(option, 3, Len(option))
    ELSE option

\* C22: the output_id of the reference made for an inputpath property is the
\* sanitized option name with only its leading output_ removed
C22_OnlyLeadingPrefixRemoved ==
    Returned =>
        \A i \in DOMAIN Operations : \A ref \in RefsWithWidget(i, "inputpath") :
            SlotOf(i, ref).task_output_reference.output_id
                = SanitizeParamName(WithoutOutputPrefix(
                        Operations[i].component_params[ref].value.option))

\* C23: the value resolved for a file property whose file is empty is None
C23_EmptyFileYieldsNone ==
    Returned =>
        \A i \in DOMAIN Operations : \A ref \in RefsWithWidget(i, "file") :
            call.files[Operations[i].component_params[ref].value.v] = ""
                => SlotOf(i, ref).value = PyNone

(***************************************************************************)
(* The labels and annotations of the generic tasks.                        *)
(***************************************************************************)
GenericNodes == {i \in DOMAIN Operations : Operations[i].kind = "generic"}

\* C24: the values the generic branch stores under the elyra/ keys of
\* pod_labels and pod_annotations are results of sanitize_label_value
C24_GenericValuesSanitized ==
    Returned =>
        \A i \in GenericNodes :
            LET pod_labels == Task(i).task_modifiers[KeyPodLabels]
                pod_annotations == Task(i).task_modifiers[KeyPodAnnotations]
            IN /\ pod_labels["elyra/node-type"]
                        = SanitizeLabelValue(<<"notebook-script">>)
               /\ pod_labels["elyra/pipeline-name"]
                        = SanitizeLabelValue(call.pipeline_name)
               /\ pod_labels["elyra/pipeline-version"]
                        = SanitizeLabelValue(call.pipeline_version)
               /\ pod_labels["elyra/experiment-name"]
                        = SanitizeLabelValue(call.experiment_name)
               /\ pod_labels["elyra/node-name"]
                        = SanitizeLabelValue(Operations[i].name)
               /\ pod_annotations["elyra/node-file-name"]
                        = SanitizeLabelValue(Operations[i].filename)
               /\ pod_annotations["elyra/pipeline-source"]
                        = SanitizeLabelValue(pipeline.source)

(***************************************************************************)
(* The log of a failed compilation.                                        *)
(***************************************************************************)
\* the call failed in the compiler
CompilerRejected ==
    /\ proc.pc = "raised"
    /\ \/ proc.raised_at = "compile"
       \/ proc.raised_at = "write" /\ proc.export_format = "yaml"

\* the call failed while the generated code was formatted
PostProcessingFailed == proc.pc = "raised" /\ proc.raised_at = "format"

DslLogged ==
    \E i \in DOMAIN effects :
        /\ effects[i].call = "log.error"
        /\ effects[i].dsl = proc.dsl

\* C25: when formatting the generated DSL fails or the compiler rejects it,
\* the DSL has been logged by the time the error leaves the processor
C25_FailedCompilationLogsDsl ==
    proc.op \in {"process", "export"} /\ (PostProcessingFailed \/ CompilerRejected)
        => DslLogged

(***************************************************************************)
(* Generic nodes under CRI-O.                                              *)
(***************************************************************************)
\* the compilation stopped at the lookup of line 1035
WorkDirNameMissing ==
    /\ pc = "raised"
    /\ error = Raise("KeyError", [key |-> "container_work_dir_name"])

\* the descriptor of a generic node as the CRI-O branches leave it
CrioDescriptor(i) ==
    LET command_args == Task(i).component_definition.command_args
        m == Task(i).task_modifiers
    IN /\ \E a \in DOMAIN command_args : command_args[a].part = "pip.conf"
       /\ \E a \in DOMAIN command_args :
            /\ command_args[a].part = "--user-volume-path"
            /\ command_args[a].path =
                <<CrioRuntimeSettings.container_work_dir_root_path,
                  "jupyter-work-dir",
                  CrioRuntimeSettings.container_python_dir_name>>
       /\ KeyCrioRuntime \in DOMAIN m
       /\ m[KeyEnvVariables]["PYTHONPATH"] = CrioRuntimeSettings.python_user_lib_path

\* C26: with CRIO_RUNTIME=true the compilation of a pipeline with a generic
\* node ends with the tasks returned, not at the lookup of the work directory
\* name, and the generic descriptors carry the pip.conf download, the
\* --user-volume-path argument, the crio_runtime volume and PYTHONPATH
C26_CrioGenericCompiles ==
    /\ (call.is_crio_runtime /\ AnyGeneric) => ~WorkDirNameMissing
    /\ (call.is_crio_runtime /\ Returned) =>
            \A i \in DOMAIN Operations : IsGeneric(i) => CrioDescriptor(i)

(***************************************************************************)
(* The lookup of an engine by its member name.                             *)
(***************************************************************************)
LookedUpByName == fn.name = "get_instance_by_name" /\ fn.called

\* C27: get_instance_by_name returns the member whose name it is given, and
\* raises KeyError only for an argument that is no member name
C27_MemberNameReturnsMember ==
    LookedUpByName =>
        /\ fn.arg \in DOMAIN WorkflowEngineTypeMembers =>
                fn.result = Return([member |-> fn.arg])
        /\ fn.result.raised => fn.arg \notin DOMAIN WorkflowEngineTypeMembers

(***************************************************************************)
(* The external calls of process().                                        *)
(***************************************************************************)
\* the calls of process() to the authenticator, the client and the compiler,
\* in the order of lines 157-390
ProcessCallOrder ==
    <<"authenticate", "Client", "list_experiments", "get_pipeline_id",
      "_compile_pipeline_dsl", "upload", "create_experiment", "run_pipeline">>

\* the place in ProcessCallOrder of the call made at a step of process()
CallAt ==
    [metadata |-> 0, authenticate |-> 1, client |-> 2, namespace |-> 3,
     pipeline_id |-> 4, generate |-> 5, tasks |-> 5, render |-> 5, format |-> 5,
     compile |-> 5, upload |-> 6, experiment |-> 7, run |-> 8]

IsExternalCall(e) ==
    e.call \in {"authenticate", "Client", "list_experiments", "get_pipeline_id",
                "_compile_pipeline_dsl", "upload_pipeline",
                "upload_pipeline_version", "create_experiment", "run_pipeline"}

ExternalCalls == SelectSeq(effects, IsExternalCall)

\* C28: the external calls process() has completed are an initial part of
\* the fixed order, each made once; the upload is upload_pipeline exactly for
\* a pipeline that get_pipeline_id did not find; after a failure no call
\* later in the order has been made; a response is returned only after all of
\* them, with run_pipeline having returned a run
C28_CallsInFixedOrder ==
    proc.op = "process" =>
        /\ Len(ExternalCalls) <= Len(ProcessCallOrder)
        /\ \A k \in DOMAIN ExternalCalls :
            IF ProcessCallOrder[k] = "upload"
            THEN ExternalCalls[k].call =
                    (IF proc.pipeline_id = None
                     THEN "upload_pipeline" ELSE "upload_pipeline_version")
            ELSE ExternalCalls[k].call = ProcessCallOrder[k]
        /\ proc.pc = "raised" => Len(ExternalCalls) <= CallAt[proc.raised_at]
        /\ proc.pc = "returned" =>
            /\ Len(ExternalCalls) = Len(ProcessCallOrder)
            /\ ExternalCalls[Len(ExternalCalls)].returned # None

\* process() returned a response for a pipeline that existed already
C28_Witness ==
    /\ proc.op = "process"
    /\ proc.pc = "returned"
    /\ proc.pipeline_id # None
    /\ Len(ExternalCalls) = Len(ProcessCallOrder)

(***************************************************************************)
(* Tolerations that differ in a field.                                     *)
(***************************************************************************)
\* the (key, operator, value, effect) tuples of the tolerations applied
TolerationTuples ==
    {ValuesOf(applied[k]) : k \in AppliedOf("KubernetesToleration")}

TolerationEntries ==
    IF KeyKubernetesTolerations \in DOMAIN execution_object
    THEN execution_object[KeyKubernetesTolerations]
    ELSE EmptyDict

\* C29: kubernetes_tolerations holds one entry per different
\* (key, operator, value, effect) tuple applied: no two different tuples share
\* an entry
C29_OneEntryPerTuple ==
    /\ Cardinality(DOMAIN TolerationEntries) = Cardinality(TolerationTuples)
    /\ \A t \in TolerationTuples :
        \E h \in DOMAIN TolerationEntries : TolerationEntries[h] = t

(***************************************************************************)
(* The task an inputpath reference resolves to.                            *)
(***************************************************************************)
\* the node id that the inputpath property ref of node i names
ReferencedId(i, ref) == Operations[i].component_params[ref].value.value

NodesWithId(id) == {j \in DOMAIN Operations : Operations[j].id = id}

\* the nodes whose descriptor has the escaped task id
TasksEscapedTo(task_id) ==
    {j \in DOMAIN Operations : Task(j).escaped_task_id = task_id}

\* C30: the task_id of the reference made for an inputpath property that
\* names a node of the pipeline is the escaped_task_id of that node's
\* descriptor and of no other descriptor
C30_ReferenceResolvesToOneTask ==
    Returned =>
        \A i \in DOMAIN Operations : \A ref \in RefsWithWidget(i, "inputpath") :
            NodesWithId(ReferencedId(i, ref)) # {} =>
                TasksEscapedTo(SlotOf(i, ref).task_output_reference.task_id)
                    = NodesWithId(ReferencedId(i, ref))

=============================================================================
